---------------------------- MODULE Spec2Model ----------------------------
(***************************************************************************)
(* A model of the ybbus/jsonrpc client library.                            *)
(*                                                                         *)
(*   Spec        the autoincrementing RPCClient of src/jsonrpc.go          *)
(*               (lines 153-629) used from several goroutines: identifier  *)
(*               allocation under idMutex, the unsynchronised setters and  *)
(*               the building and sending of single requests.              *)
(*   SpecHeaders the same client with SetCustomHeader, UnsetCustomHeader   *)
(*               and SetBasicAuth invoked as well.                         *)
(*   SpecOldBatch the same client making request objects and sending them  *)
(*               with Batch.                                               *)
(*   SpecParams  Params, NewRequest and rpcClient.Call of                  *)
(*               src/unnamed/part_002: the normalisation of an argument    *)
(*               list and the serialisation of the request built from it.  *)
(*   SpecBatch   BatchResponse.GetResponseOf of src/jsonrpc.go.            *)
(*   SpecAsMap   RPCResponses.AsMap of src/unnamed/part_002.               *)
(*   SpecRPC     Call, CallFor, CallRaw, CallBatch and CallBatchRaw of     *)
(*               rpcClient (src/unnamed/part_002) against every reply of   *)
(*               the server: status, body, transport failure.              *)
(*   SpecRPCSeq  Call, CallFor and CallBatch of one rpcClient following    *)
(*               one another.                                              *)
(*   SpecAccessors  RPCResponse.GetInt and GetFloat on decoded results.    *)
(*   SpecCalls   Call, Notification and NewRPCNotificationObject of the    *)
(*               RPCClient of src/jsonrpc.go with what they serialise and  *)
(*               return.                                                   *)
(*   SpecParamsTwice  NewRequest on an argument list and on what Params    *)
(*               returned for it.                                          *)
(***************************************************************************)
EXTENDS Integers, Sequences, FiniteSets, TLC

(***************************************************************************)
(* Bounds of the model.                                                    *)
(***************************************************************************)
NumThreads == 2     \* goroutines sharing one client
MaxOps     == 3     \* operations invoked in one behaviour
UintWidth  == 3     \* width, in bits, given to Go's uint

UintMod == 2 ^ UintWidth
Uint    == 0 .. (UintMod - 1)
Threads == 1 .. NumThreads

VARIABLES
    nextID,            \* RPCClient.nextID
    autoIncrementID,   \* RPCClient.autoIncrementID
    customHeaders,     \* RPCClient.customHeaders
    idMutex,           \* RPCClient.idMutex: the goroutine holding it, 0 when unlocked
    pc,                \* pc[t]: the statement goroutine t executes next
    frame,             \* frame[t]: the locals of the call goroutine t is in
    objs,              \* the RPCRequest objects handed out to the caller
    log,               \* the id allocations and id settings, in the order they took effect
    wire,              \* the HTTP requests that reached the server
    fatal,             \* the runtime stopped the process (concurrent map access)
    opsLeft,           \* operations that may still be invoked
    args,              \* the variadic argument list given to Call / NewRequest / Params
    method,            \* the method name given to Call / NewRequest
    defaultRequestID,  \* rpcClient.defaultRequestID
    sent,              \* the RPCRequest built from args and its serialised body
    rpcResponses,      \* BatchResponse.rpcResponses
    lookup,            \* the *RPCRequest given to GetResponseOf
    found,             \* what GetResponseOf returned
    responseList,      \* an RPCResponses list, as CallBatch returns it
    asMap,             \* what AsMap returned for it
    allowUnknownFields,\* rpcClient.allowUnknownFields
    heap,              \* the RPCRequest objects of the caller, by address
    called,            \* the call made on the rpcClient and what it returned
    batched,           \* the last RPCClient.Batch and what it returned
    accessed,          \* a decoded result and what GetInt and GetFloat returned for it
    returned           \* returned[t]: what the last call of goroutine t returned

clientVars == <<nextID, autoIncrementID, customHeaders, idMutex, pc, frame,
                objs, log, wire, fatal, opsLeft>>

paramsVars == <<args, method, defaultRequestID, sent>>

batchVars == <<rpcResponses, lookup, found>>

mapVars == <<responseList, asMap>>

rpcVars == <<allowUnknownFields, heap, called>>

vars == <<clientVars, paramsVars, batchVars, mapVars, rpcVars, batched, accessed, returned>>

(***************************************************************************)
(* Custom headers: a Go map[string]string over a small key set.  A key     *)
(* that is not in the map is mapped to NoHeader.                           *)
(***************************************************************************)
NoHeader   == "<absent>"
HeaderKeys == {"Authorization", "Test"}
NoHeaders  == [k \in HeaderKeys |-> NoHeader]

\* base64.StdEncoding.EncodeToString([]byte(username + ":" + password))
Base64Auth(username, password) ==
    CASE username = "u" /\ password = "p" -> "dTpw"
      [] username = "" /\ password = "p" -> "OnA="
      [] username = "u" /\ password = "" -> "dTo="
      [] OTHER -> "Og=="

NoFrame == [op |-> "none", id |-> 0, inc |-> FALSE, req |-> 0, flag |-> FALSE,
            key |-> "", val |-> "", hdrs |-> NoHeaders, n |-> 0]

\* NewRPCClient
NewRPCClient ==
    /\ nextID = 0
    /\ autoIncrementID = TRUE
    /\ customHeaders = NoHeaders
    /\ idMutex = 0

ClientInit ==
    /\ NewRPCClient
    /\ pc = [t \in Threads |-> "idle"]
    /\ frame = [t \in Threads |-> NoFrame]
    /\ objs = <<>>
    /\ log = <<>>
    /\ wire = {}
    /\ fatal = FALSE
    /\ opsLeft = MaxOps

(***************************************************************************)
(* Helpers for the steps of one goroutine.                                 *)
(***************************************************************************)
Goto(t, label) == pc' = [pc EXCEPT ![t] = label]

Return(t) ==
    /\ pc' = [pc EXCEPT ![t] = "idle"]
    /\ frame' = [frame EXCEPT ![t] = NoFrame]

Invoke(t, label, f) ==
    /\ ~fatal
    /\ pc[t] = "idle"
    /\ opsLeft > 0
    /\ opsLeft' = opsLeft - 1
    /\ pc' = [pc EXCEPT ![t] = label]
    /\ frame' = [frame EXCEPT ![t] = f]

At(t, label) == ~fatal /\ pc[t] = label

\* sync.Mutex.Lock can return only when no goroutine holds the mutex
LockFree_nowait == TRUE
LockFree == idMutex = 0

\* client.nextID++ on a uint
IncrID_down(id) == (id - 1) % UintMod
IncrID_skip(id) == id
IncrID(id) == (id + 1) % UintMod

\* if client.autoIncrementID == true
ShouldIncr_always(flag) == TRUE
ShouldIncr(flag) == flag = TRUE

\* An allocation that has tested autoIncrementID, found it set, and has not yet
\* incremented nextID (it holds idMutex).
PendingIncr == \E u \in Threads : pc[u] \in {"nr_incr", "no_incr", "ur_incr"} /\ frame[u].inc

\* An entry of log: the operation, the id it allocated or set (for
\* SetAutoIncrementID: the value of nextID when the flag was written), the flag
\* (SetAutoIncrementID's argument, for the others the flag as it stood) and
\* whether an increment of nextID was pending.
LogEntry(op, id, flag) == [op |-> op, id |-> id, flag |-> flag, pending |-> PendingIncr]

(***************************************************************************)
(* Identifier allocation.  Each of newRequest, NewRPCRequestObject and     *)
(* UpdateRequestID locks idMutex, reads nextID, tests autoIncrementID,     *)
(* increments nextID and unlocks.  The test of the flag and the increment  *)
(* are separate steps: SetAutoIncrementID writes the flag without the      *)
(* mutex and may fall between them.                                        *)
(***************************************************************************)

\* RPCClient.Call: p is nil or the params slice; newRequest(false, method, p)
InvokeCall(t) ==
    /\ Invoke(t, "nr_lock", [NoFrame EXCEPT !.op = "Call"])
    /\ UNCHANGED <<nextID, autoIncrementID, customHeaders, idMutex, objs, log, wire, fatal>>

\* RPCClient.Notification: newRequest(true, method, params) takes no id and no lock
InvokeNotification(t) ==
    /\ Invoke(t, "nr_range", [NoFrame EXCEPT !.op = "Notification"])
    /\ UNCHANGED <<nextID, autoIncrementID, customHeaders, idMutex, objs, log, wire, fatal>>

\* newRequest: client.idMutex.Lock(); request := RPCRequest{ID: client.nextID, ...}
NewRequestLock(t) ==
    /\ At(t, "nr_lock")
    /\ LockFree
    /\ idMutex' = t
    /\ frame' = [frame EXCEPT ![t].id = nextID, ![t].n = Len(log) + 1]
    /\ log' = Append(log, LogEntry("Call", nextID, autoIncrementID))
    /\ Goto(t, "nr_check")
    /\ UNCHANGED <<nextID, autoIncrementID, customHeaders, objs, wire, fatal, opsLeft>>

\* newRequest: if client.autoIncrementID == true
NewRequestCheck(t) ==
    /\ At(t, "nr_check")
    /\ frame' = [frame EXCEPT ![t].inc = ShouldIncr(autoIncrementID)]
    /\ Goto(t, "nr_incr")
    /\ UNCHANGED <<nextID, autoIncrementID, customHeaders, idMutex, objs, log, wire, fatal, opsLeft>>

\* newRequest: client.nextID++ ; client.idMutex.Unlock()
NewRequestIncr(t) ==
    /\ At(t, "nr_incr")
    /\ nextID' = IF frame[t].inc THEN IncrID(nextID) ELSE nextID
    /\ idMutex' = 0
    /\ Goto(t, "nr_range")
    /\ UNCHANGED <<autoIncrementID, customHeaders, frame, objs, log, wire, fatal, opsLeft>>

\* A goroutine that is inside a write of the customHeaders map
WritingHeaders(u) == pc[u] \in {"sch_write", "uch_write", "sba_write"}

\* newRequest: for k, v := range client.customHeaders { request.Header.Add(k, v) }
\* The map is read without idMutex.  While another goroutine is inside a write of
\* the map the iteration is a data race on a Go map: the runtime may stop the
\* process ("concurrent map iteration and map write").
NewRequestRange(t) ==
    /\ At(t, "nr_range")
    /\ \/ /\ frame' = [frame EXCEPT ![t].hdrs = customHeaders]
          /\ Goto(t, "do")
          /\ UNCHANGED fatal
       \/ /\ \E u \in Threads \ {t} : WritingHeaders(u)
          /\ fatal' = TRUE
          /\ UNCHANGED <<pc, frame>>
    /\ UNCHANGED <<nextID, autoIncrementID, customHeaders, idMutex, objs, log, wire, opsLeft>>

WireEntry(t) ==
    [notification |-> frame[t].op = "Notification", id |-> frame[t].id,
     hdrs |-> frame[t].hdrs, n |-> frame[t].n]

\* RPCClient.doCall: httpClient.Do(req) fails, or the request reaches the server
\* and the body is decoded (or not) into an RPCResponse
DoCall(t) ==
    /\ At(t, "do")
    /\ frame[t].op = "Call"
    /\ \E outcome \in {"transport error", "decode error", "response"} :
          wire' = IF outcome = "transport error" THEN wire ELSE wire \cup {WireEntry(t)}
    /\ Return(t)
    /\ UNCHANGED <<nextID, autoIncrementID, customHeaders, idMutex, objs, log, fatal, opsLeft>>

\* RPCClient.Notification: httpClient.Do(httpRequest); the response is not read
NotificationDo(t) ==
    /\ At(t, "do")
    /\ frame[t].op = "Notification"
    /\ \E outcome \in {"transport error", "sent"} :
          wire' = IF outcome = "transport error" THEN wire ELSE wire \cup {WireEntry(t)}
    /\ Return(t)
    /\ UNCHANGED <<nextID, autoIncrementID, customHeaders, idMutex, objs, log, fatal, opsLeft>>

\* RPCClient.NewRPCRequestObject
InvokeNewRPCRequestObject(t) ==
    /\ Invoke(t, "no_lock", [NoFrame EXCEPT !.op = "NewRPCRequestObject"])
    /\ UNCHANGED <<nextID, autoIncrementID, customHeaders, idMutex, objs, log, wire, fatal>>

\* NewRPCRequestObject: client.idMutex.Lock(); rpcRequest := RPCRequest{ID: client.nextID, ...}
NewObjectLock(t) ==
    /\ At(t, "no_lock")
    /\ LockFree
    /\ idMutex' = t
    /\ frame' = [frame EXCEPT ![t].id = nextID, ![t].n = Len(log) + 1]
    /\ log' = Append(log, LogEntry("NewRPCRequestObject", nextID, autoIncrementID))
    /\ Goto(t, "no_check")
    /\ UNCHANGED <<nextID, autoIncrementID, customHeaders, objs, wire, fatal, opsLeft>>

\* NewRPCRequestObject: if client.autoIncrementID == true
NewObjectCheck(t) ==
    /\ At(t, "no_check")
    /\ frame' = [frame EXCEPT ![t].inc = ShouldIncr(autoIncrementID)]
    /\ Goto(t, "no_incr")
    /\ UNCHANGED <<nextID, autoIncrementID, customHeaders, idMutex, objs, log, wire, fatal, opsLeft>>

\* NewRPCRequestObject: client.nextID++ ; client.idMutex.Unlock() ; return &rpcRequest
NewObjectIncr(t) ==
    /\ At(t, "no_incr")
    /\ nextID' = IF frame[t].inc THEN IncrID(nextID) ELSE nextID
    /\ idMutex' = 0
    /\ objs' = Append(objs, frame[t].id)
    /\ Return(t)
    /\ UNCHANGED <<autoIncrementID, customHeaders, log, wire, fatal, opsLeft>>

\* RPCClient.UpdateRequestID(rpcRequest); r = 0 stands for a nil rpcRequest,
\* which returns at once
InvokeUpdateRequestID(t, r) ==
    /\ r \in 0 .. Len(objs)
    /\ IF r = 0
          THEN /\ ~fatal
               /\ pc[t] = "idle"
               /\ opsLeft > 0
               /\ opsLeft' = opsLeft - 1
               /\ UNCHANGED <<pc, frame>>
          ELSE Invoke(t, "ur_lock", [NoFrame EXCEPT !.op = "UpdateRequestID", !.req = r])
    /\ UNCHANGED <<nextID, autoIncrementID, customHeaders, idMutex, objs, log, wire, fatal>>

\* UpdateRequestID: client.idMutex.Lock(); rpcRequest.ID = client.nextID
UpdateRequestIDLock(t) ==
    /\ At(t, "ur_lock")
    /\ LockFree
    /\ idMutex' = t
    /\ objs' = [objs EXCEPT ![frame[t].req] = nextID]
    /\ frame' = [frame EXCEPT ![t].id = nextID, ![t].n = Len(log) + 1]
    /\ log' = Append(log, LogEntry("UpdateRequestID", nextID, autoIncrementID))
    /\ Goto(t, "ur_check")
    /\ UNCHANGED <<nextID, autoIncrementID, customHeaders, wire, fatal, opsLeft>>

\* UpdateRequestID: if client.autoIncrementID == true
UpdateRequestIDCheck(t) ==
    /\ At(t, "ur_check")
    /\ frame' = [frame EXCEPT ![t].inc = ShouldIncr(autoIncrementID)]
    /\ Goto(t, "ur_incr")
    /\ UNCHANGED <<nextID, autoIncrementID, customHeaders, idMutex, objs, log, wire, fatal, opsLeft>>

\* UpdateRequestID leaving nextID as it is
UpdateRequestIDIncr_noAdvance(t) ==
    /\ At(t, "ur_incr")
    /\ idMutex' = 0
    /\ Return(t)
    /\ UNCHANGED <<nextID, autoIncrementID, customHeaders, objs, log, wire, fatal, opsLeft>>

\* UpdateRequestID: client.nextID++ ; the deferred client.idMutex.Unlock()
UpdateRequestIDIncr(t) ==
    /\ At(t, "ur_incr")
    /\ nextID' = IF frame[t].inc THEN IncrID(nextID) ELSE nextID
    /\ idMutex' = 0
    /\ Return(t)
    /\ UNCHANGED <<autoIncrementID, customHeaders, objs, log, wire, fatal, opsLeft>>

(***************************************************************************)
(* The setters.  SetNextID takes idMutex; SetAutoIncrementID and the       *)
(* header setters write the client's fields without it.                    *)
(***************************************************************************)
NextIDChoices == {2, UintMod - 1}

\* RPCClient.SetNextID(id)
InvokeSetNextID(t, id) ==
    /\ Invoke(t, "sn_lock", [NoFrame EXCEPT !.op = "SetNextID", !.id = id])
    /\ UNCHANGED <<nextID, autoIncrementID, customHeaders, idMutex, objs, log, wire, fatal>>

\* SetNextID: client.idMutex.Lock()
SetNextIDLock(t) ==
    /\ At(t, "sn_lock")
    /\ LockFree
    /\ idMutex' = t
    /\ Goto(t, "sn_write")
    /\ UNCHANGED <<nextID, autoIncrementID, customHeaders, frame, objs, log, wire, fatal, opsLeft>>

\* SetNextID: client.nextID = id ; client.idMutex.Unlock()
SetNextIDWrite(t) ==
    /\ At(t, "sn_write")
    /\ nextID' = frame[t].id
    /\ idMutex' = 0
    /\ log' = Append(log, LogEntry("SetNextID", frame[t].id, autoIncrementID))
    /\ Return(t)
    /\ UNCHANGED <<autoIncrementID, customHeaders, objs, wire, fatal, opsLeft>>

\* RPCClient.SetAutoIncrementID(flag)
InvokeSetAutoIncrementID(t, flag) ==
    /\ Invoke(t, "sai_write", [NoFrame EXCEPT !.op = "SetAutoIncrementID", !.flag = flag])
    /\ UNCHANGED <<nextID, autoIncrementID, customHeaders, idMutex, objs, log, wire, fatal>>

\* SetAutoIncrementID: client.autoIncrementID = flag
SetAutoIncrementIDWrite(t) ==
    /\ At(t, "sai_write")
    /\ autoIncrementID' = frame[t].flag
    /\ log' = Append(log, LogEntry("SetAutoIncrementID", nextID, frame[t].flag))
    /\ Return(t)
    /\ UNCHANGED <<nextID, customHeaders, idMutex, objs, wire, fatal, opsLeft>>

\* A write of the customHeaders map, made without idMutex.  While another
\* goroutine iterates over the map or writes it, this is a data race on a Go map:
\* the runtime may stop the process ("concurrent map writes") or let the write
\* through.
MapWrite(t, m) ==
    \/ /\ customHeaders' = m
       /\ fatal' = FALSE
       /\ Return(t)
    \/ /\ \E u \in Threads \ {t} : pc[u] = "nr_range" \/ WritingHeaders(u)
       /\ fatal' = TRUE
       /\ UNCHANGED <<customHeaders, pc, frame>>

\* RPCClient.SetCustomHeader(key, value)
InvokeSetCustomHeader(t, key, value) ==
    /\ Invoke(t, "sch_write", [NoFrame EXCEPT !.op = "SetCustomHeader", !.key = key, !.val = value])
    /\ UNCHANGED <<nextID, autoIncrementID, customHeaders, idMutex, objs, log, wire, fatal>>

\* SetCustomHeader: client.customHeaders[key] = value
SetCustomHeaderWrite(t) ==
    /\ At(t, "sch_write")
    /\ MapWrite(t, [customHeaders EXCEPT ![frame[t].key] = frame[t].val])
    /\ UNCHANGED <<nextID, autoIncrementID, idMutex, objs, log, wire, opsLeft>>

\* RPCClient.UnsetCustomHeader(key)
InvokeUnsetCustomHeader(t, key) ==
    /\ Invoke(t, "uch_write", [NoFrame EXCEPT !.op = "UnsetCustomHeader", !.key = key])
    /\ UNCHANGED <<nextID, autoIncrementID, customHeaders, idMutex, objs, log, wire, fatal>>

\* UnsetCustomHeader: delete(client.customHeaders, key)
UnsetCustomHeaderWrite(t) ==
    /\ At(t, "uch_write")
    /\ MapWrite(t, [customHeaders EXCEPT ![frame[t].key] = NoHeader])
    /\ UNCHANGED <<nextID, autoIncrementID, idMutex, objs, log, wire, opsLeft>>

\* RPCClient.SetBasicAuth(username, password)
InvokeSetBasicAuth(t, username, password) ==
    /\ Invoke(t, "sba_write", [NoFrame EXCEPT !.op = "SetBasicAuth", !.key = username, !.val = password])
    /\ UNCHANGED <<nextID, autoIncrementID, customHeaders, idMutex, objs, log, wire, fatal>>

\* SetBasicAuth: an empty username or password deletes the Authorization header,
\* otherwise it is set to "Basic " + base64(username:password)
SetBasicAuthWrite(t) ==
    /\ At(t, "sba_write")
    /\ IF frame[t].key = "" \/ frame[t].val = ""
          THEN MapWrite(t, [customHeaders EXCEPT !["Authorization"] = NoHeader])
          ELSE MapWrite(t, [customHeaders EXCEPT !["Authorization"] =
                                "Basic " \o Base64Auth(frame[t].key, frame[t].val)])
    /\ UNCHANGED <<nextID, autoIncrementID, idMutex, objs, log, wire, opsLeft>>

(***************************************************************************)
(* Go values as they are held in an interface{}.  A value is described by  *)
(* its dynamic type and its content:                                       *)
(*   kind   the reflect.Kind at the end of its pointer chain, "nil" for    *)
(*          the untyped nil, which has no type                             *)
(*   depth  the number of pointer levels in front of that kind             *)
(*   nilAt  0 when every pointer of the chain points somewhere, i when     *)
(*          the i-th pointer, counted from the outside, is nil             *)
(*   base   the content at the end of the chain                            *)
(*   elems  the elements of a []interface{}                                *)
(* The element and field types are ones encoding/json encodes by its       *)
(* default rule for their kind.                                            *)
(***************************************************************************)
MaxPtrDepth == 2    \* pointer levels in front of a value
MaxArgs     == 3    \* arguments in one variadic call

Scalars    == {"bool", "int", "float64", "string"}
Composites == {"struct", "array", "slice", "map"}

GoValue(kind, depth, nilAt, base, elems) ==
    [kind |-> kind, depth |-> depth, nilAt |-> nilAt, base |-> base, elems |-> elems]

\* the untyped nil: interface{}(nil)
GoNil == GoValue("nil", 0, 0, "nil", <<>>)

\* a nil []interface{}: the variadic parameter of a call without arguments
NilSlice == GoValue("slice", 0, 0, "nil", <<>>)

\* []interface{}{elems...}
SliceOf(elems) == GoValue("slice", 0, 0, "[]interface{}", elems)

\* the contents used for each kind
Contents(kind) ==
    CASE kind = "bool"      -> {"true"}
      [] kind = "int"       -> {"123"}
      [] kind = "float64"   -> {"1.23"}
      [] kind = "string"    -> {"Alex"}
      [] kind = "struct"    -> {"struct{}{}", "Person"}
      [] kind = "array"     -> {"[0]int{}", "[2]int{1,2}"}
      [] kind = "slice"     -> {"nil", "[]int{}", "[]int{1,2}"}
      [] kind = "map"       -> {"nil", "map[string]int{}", "map[string]int{age:35}"}
      [] kind = "interface" -> {"nil", "123", "Person"}

\* values and pointers to values; an interface{} variable is only reached
\* through a pointer to it
PlainValues ==
    { GoValue(kind, depth, 0, base, <<>>) :
        <<kind, depth, base>> \in
            { x \in (Scalars \cup Composites \cup {"interface"})
                       \X (0 .. MaxPtrDepth)
                       \X {"true", "123", "1.23", "Alex", "struct{}{}", "Person",
                           "[0]int{}", "[2]int{1,2}", "nil", "[]int{}", "[]int{1,2}",
                           "map[string]int{}", "map[string]int{age:35}"} :
                /\ x[3] \in Contents(x[1])
                /\ x[1] = "interface" => x[2] >= 1 } }

\* typed nil pointers: (*T)(nil), and pointers to them
NilPointers ==
    { GoValue(kind, depth, nilAt, "nil", <<>>) :
        <<kind, depth, nilAt>> \in
            { x \in (Scalars \cup Composites \cup {"interface"})
                       \X (1 .. MaxPtrDepth) \X (1 .. MaxPtrDepth) : x[3] <= x[2] } }

Person == GoValue("struct", 0, 0, "Person", <<>>)

\* []interface{} values given as one argument
AnySlices ==
    { SliceOf(<<>>), SliceOf(<<Person>>),
      SliceOf(<<GoValue("int", 0, 0, "123", <<>>), GoNil>>) }

SingleValues == {GoNil} \cup PlainValues \cup NilPointers \cup AnySlices

\* the values mixed in calls with several arguments
MixedValues ==
    { GoNil,
      GoValue("int", 0, 0, "123", <<>>),
      GoValue("string", 0, 0, "Alex", <<>>),
      Person,
      GoValue("struct", 1, 0, "Person", <<>>),
      GoValue("struct", 1, 1, "nil", <<>>),
      GoValue("slice", 0, 0, "[]int{1,2}", <<>>) }

SeqsOf(S, lo, hi) == UNION { [1 .. n -> S] : n \in lo .. hi }

\* the variadic parameter of a call: nil without arguments, an empty list
\* when an empty list is spread (f(list...)), else the arguments
ArgLists ==
    {NilSlice, SliceOf(<<>>)}
        \cup { SliceOf(<<v>>) : v \in SingleValues }
        \cup { SliceOf(s) : s \in SeqsOf(MixedValues, 2, MaxArgs) }

(***************************************************************************)
(* reflect: a type is the sequence of kinds of its pointer chain, the nil  *)
(* Type is the empty sequence.                                             *)
(***************************************************************************)
NilType == <<>>

\* reflect.TypeOf(i)
TypeOf(v) ==
    IF v.kind = "nil" THEN NilType
    ELSE [i \in 1 .. v.depth |-> "ptr"] \o <<v.kind>>

\* Type.Kind()
Kind(typeOf) == Head(typeOf)

\* Type.Elem() of a pointer type
Elem(typeOf) == Tail(typeOf)

\* one dereference only
Traverse_once(typeOf) ==
    IF typeOf # NilType /\ Kind(typeOf) = "ptr" THEN Elem(typeOf) ELSE typeOf

\* the loop of Params: traverse until nil or not a pointer type
RECURSIVE Traverse(_)
Traverse(typeOf) ==
    IF typeOf # NilType /\ Kind(typeOf) = "ptr" THEN Traverse(Elem(typeOf)) ELSE typeOf

(***************************************************************************)
(* Params (src/unnamed/part_002): the normalisation of a variadic argument *)
(* list into the value of RPCRequest.Params.                               *)
(***************************************************************************)
\* len(params)
len(s) == Len(s.elems)

\* the kinds of the inner switch for which the single argument is used as it is,
\* widened to every kind
Unwrapped_everyKind == {"struct", "array", "slice", "interface", "map"} \cup Scalars

\* the kinds of the inner switch without reflect.Slice
Unwrapped_noSlice == {"struct", "array", "interface", "map"}

\* the kinds of the inner switch for which the single argument is used as it is
Unwrapped == {"struct", "array", "slice", "interface", "map"}

\* case 1 of Params: one param was provided
ParamsOne(params) ==
    IF params.elems[1] # GoNil
    THEN LET typeOf == Traverse(TypeOf(params.elems[1])) IN
         IF typeOf # NilType
         THEN IF Kind(typeOf) \in Unwrapped
              THEN params.elems[1]      \* finalParams = params[0]
              ELSE params               \* finalParams = params
         ELSE GoNil
    ELSE params                         \* finalParams = params

\* Params without its default case: every non-empty list treated as case 1
Params_noDefault(params) ==
    IF params # NilSlice /\ len(params) > 0 THEN ParamsOne(params) ELSE GoNil

Params(params) ==
    IF params # NilSlice
    THEN CASE len(params) = 0 -> GoNil
           [] len(params) = 1 -> ParamsOne(params)
           [] OTHER           -> params
    ELSE GoNil

(***************************************************************************)
(* encoding/json: json.Marshal of a value, as the JSON text and the JSON   *)
(* type of that text.                                                      *)
(***************************************************************************)
JSON(shape, text) == [shape |-> shape, text |-> text]

JSONNull == JSON("null", "null")

RECURSIVE Marshal(_), MarshalElems(_)

\* the elements of an array, separated by commas
MarshalElems(elems) ==
    IF elems = <<>> THEN ""
    ELSE IF Len(elems) = 1 THEN Marshal(elems[1]).text
    ELSE Marshal(elems[1]).text \o "," \o MarshalElems(Tail(elems))

\* json.Marshal(v): nil, a nil pointer, a nil slice, a nil map and a nil
\* interface encode as null; pointers encode as what they point to
Marshal(v) ==
    IF v.kind = "nil" \/ v.nilAt > 0 \/ v.base = "nil" THEN JSONNull
    ELSE CASE v.kind \in {"bool", "int", "float64"} -> JSON("scalar", v.base)
           [] v.kind = "string" -> JSON("scalar", "\"" \o v.base \o "\"")
           [] v.base = "struct{}{}" -> JSON("object", "{}")
           [] v.base = "Person" ->
                JSON("object", "{\"name\":\"Alex\",\"age\":35,\"country\":\"Germany\"}")
           [] v.base \in {"[0]int{}", "[]int{}"} -> JSON("array", "[]")
           [] v.base \in {"[2]int{1,2}", "[]int{1,2}"} -> JSON("array", "[1,2]")
           [] v.base = "[]interface{}" ->
                JSON("array", "[" \o MarshalElems(v.elems) \o "]")
           [] v.base = "map[string]int{}" -> JSON("object", "{}")
           [] v.base = "map[string]int{age:35}" -> JSON("object", "{\"age\":35}")
           [] v.kind = "interface" /\ v.base = "123" -> JSON("scalar", "123")

\* omitempty on a field of an empty slice, array or map type
isEmptyValue_byLength(v) ==
    \/ v = GoNil
    \/ v.nilAt > 0
    \/ v.depth = 0 /\ v.base \in {"nil", "[0]int{}", "[]int{}", "map[string]int{}"}
    \/ v.depth = 0 /\ v.base = "[]interface{}" /\ v.elems = <<>>

\* omitempty on the field Params interface{}: empty when the interface is nil
isEmptyValue(v) == v = GoNil

\* an RPCRequest
RPCRequest(Method, finalParams, ID, JSONRPC) ==
    [Method |-> Method, Params |-> finalParams, ID |-> ID, JSONRPC |-> JSONRPC]

jsonrpcVersion == "2.0"

\* json.Marshal(rpcRequest): the fields in declaration order, params omitted
\* when empty; the encoding of params is kept beside the text
MarshalRequest(req) ==
    [hasParams |-> ~isEmptyValue(req.Params),
     params    |-> IF isEmptyValue(req.Params) THEN JSON("absent", "")
                   ELSE Marshal(req.Params),
     text      |-> "{\"method\":\"" \o req.Method \o "\","
                   \o (IF isEmptyValue(req.Params) THEN ""
                       ELSE "\"params\":" \o Marshal(req.Params).text \o ",")
                   \o "\"id\":" \o ToString(req.ID)
                   \o ",\"jsonrpc\":\"" \o req.JSONRPC \o "\"}"]

(***************************************************************************)
(* Building and serialising one request from an argument list, the three   *)
(* ways the package offers (src/unnamed/part_002).                         *)
(***************************************************************************)
Methods == {"getinfo", "setName"}

\* RPCClientOpts.DefaultRequestID of the client that Call is invoked on
DefaultRequestIDs == {0, 1}

Built(by, req) == [by |-> by, req |-> req, body |-> MarshalRequest(req)]

NoRequest ==
    [by |-> "none", req |-> RPCRequest("", GoNil, 0, ""),
     body |-> [hasParams |-> FALSE, params |-> JSON("absent", ""), text |-> ""]]

ParamsIdle ==
    /\ args = NilSlice
    /\ method = ""
    /\ defaultRequestID = 0
    /\ sent = NoRequest

\* &RPCRequest{Method: method, Params: Params(args...)}, then json.Marshal
\* of it as CallRaw and CallBatchRaw do
ParamsLiteral ==
    /\ sent = NoRequest
    /\ sent' = Built("Params", RPCRequest(method, Params(args), 0, ""))
    /\ UNCHANGED <<args, method, defaultRequestID>>

\* NewRequest(method, args...), then json.Marshal of it
NewRequest ==
    /\ sent = NoRequest
    /\ sent' = Built("NewRequest", RPCRequest(method, Params(args), 0, jsonrpcVersion))
    /\ UNCHANGED <<args, method, defaultRequestID>>

\* NewRequest(method, Params(args...)), then json.Marshal of it: the variadic
\* parameter of NewRequest holds the one value that Params returned
NewRequestOfParams ==
    /\ sent = NoRequest
    /\ sent' = Built("NewRequest(Params)",
                     RPCRequest(method, Params(SliceOf(<<Params(args)>>)), 0, jsonrpcVersion))
    /\ UNCHANGED <<args, method, defaultRequestID>>

\* rpcClient.Call(ctx, method, args...) up to the json.Marshal of newRequest
rpcClientCall ==
    /\ sent = NoRequest
    /\ sent' = Built("Call", RPCRequest(method, Params(args), defaultRequestID,
                                        jsonrpcVersion))
    /\ UNCHANGED <<args, method, defaultRequestID>>

(***************************************************************************)
(* BatchResponse.GetResponseOf (src/jsonrpc.go).  A *RPCRequest and a      *)
(* *RPCResponse are sequences: empty for nil, else holding the struct.     *)
(***************************************************************************)
MaxResponses == 3   \* responses in one batch response
MaxRespID    == 2   \* largest id of a response or a request

Results == {"a", "b"}

RPCResponses == [ID : 0 .. MaxRespID, Result : Results]

Returned(response, err) == [response |-> response, err |-> err]

NotCalled == Returned(<<>>, "<not called>")

BatchIdle ==
    /\ rpcResponses = <<>>
    /\ lookup = <<>>
    /\ found = NotCalled

\* the response at the position the request has in the batch
GetResponseOf_byPosition(batchResponse, request) ==
    IF request = <<>> THEN Returned(<<>>, "parameter cannot be nil")
    ELSE IF request[1].ID + 1 <= Len(batchResponse)
         THEN Returned(<<batchResponse[request[1].ID + 1]>>, "")
         ELSE Returned(<<>>, "element with id " \o ToString(request[1].ID) \o " not found")

\* the loop returns at the first element whose ID is the request's
GetResponseOf(batchResponse, request) ==
    IF request = <<>> THEN Returned(<<>>, "parameter cannot be nil")
    ELSE LET matching == { i \in 1 .. Len(batchResponse) :
                              batchResponse[i].ID = request[1].ID }
         IN  IF matching # {}
             THEN Returned(<<batchResponse[CHOOSE i \in matching :
                                              \A j \in matching : i <= j]>>, "")
             ELSE Returned(<<>>, "element with id " \o ToString(request[1].ID)
                                    \o " not found")

\* batchResponse.GetResponseOf(request)
CallGetResponseOf ==
    /\ found = NotCalled
    /\ found' = GetResponseOf(rpcResponses, lookup)
    /\ UNCHANGED <<rpcResponses, lookup>>

(***************************************************************************)
(* Responses of the client of src/unnamed/part_002.  A *RPCResponse and a  *)
(* *RPCError are sequences: empty for nil, else holding the struct.        *)
(***************************************************************************)
RPCError(Code, Message) == [Code |-> Code, Message |-> Message]

RPCResponse(JSONRPC, Result, Error, ID) ==
    [JSONRPC |-> JSONRPC, Result |-> Result, Error |-> Error, ID |-> ID]

\* the elements of an RPCResponses list: nil, or a response with some id
ResponsePointers ==
    {<<>>} \cup { <<RPCResponse("2.0", result, <<>>, id)>> :
                     result \in Results, id \in 0 .. MaxRespID }

\* the outcome of AsMap: the map, or the panic of a nil pointer dereference
Mapped(panicked, resMap) == [called |-> TRUE, panicked |-> panicked, resMap |-> resMap]

NotMapped == [called |-> FALSE, panicked |-> FALSE, resMap |-> <<>>]

\* AsMap keeping the first response of each id
AsMap_firstWins(res) ==
    LET RECURSIVE Loop(_, _)
        Loop(i, resMap) ==
            IF i > Len(res) THEN Mapped(FALSE, resMap)
            ELSE IF res[i] = <<>> THEN Mapped(TRUE, <<>>)
            ELSE Loop(i + 1, resMap @@ (res[i][1].ID :> res[i][1]))
    IN  Loop(1, <<>>)

\* RPCResponses.AsMap: for _, r := range res { resMap[r.ID] = r }
AsMap(res) ==
    LET RECURSIVE Loop(_, _)
        Loop(i, resMap) ==
            IF i > Len(res) THEN Mapped(FALSE, resMap)
            ELSE IF res[i] = <<>> THEN Mapped(TRUE, <<>>)
            ELSE Loop(i + 1, (res[i][1].ID :> res[i][1]) @@ resMap)
    IN  Loop(1, <<>>)

MapIdle ==
    /\ responseList = <<>>
    /\ asMap = NotMapped

\* responseList.AsMap()
CallAsMap ==
    /\ asMap = NotMapped
    /\ asMap' = AsMap(responseList)
    /\ UNCHANGED responseList

(***************************************************************************)
(* The client of src/unnamed/part_002 (rpcClient): the requests the caller *)
(* owns, the replies of the server and the decoding of a reply.            *)
(***************************************************************************)
MaxReqs == 2        \* request objects of the caller, and pointers in one batch

\* pointers to the caller's request objects; 0 is the nil pointer
Addresses == 1 .. MaxReqs

\* the request objects as the caller filled them in: ids and versions that
\* are not the ones CallBatch would set, params given without Params()
HeapAsInTest ==
    [a \in Addresses |->
        RPCRequest("myMethod" \o ToString(a),
                   IF a % 2 = 1 THEN GoValue("int", 0, 0, "123", <<>>) ELSE Person,
                   122 + a, "7.0")]

\* the request objects as NewRequest returns them
HeapOfNewRequests ==
    [a \in Addresses |->
        RPCRequest("myMethod" \o ToString(a),
                   Params(SliceOf(<<GoValue("string", 0, 0, "Alex", <<>>)>>)),
                   0, jsonrpcVersion)]

Heaps == {HeapAsInTest, HeapOfNewRequests}

\* RPCRequests: lists of pointers, nil pointers and repeated pointers included
RequestLists == SeqsOf({0} \cup Addresses, 0, MaxReqs)

endpoint == "http://host/rpc"

\* response envelopes a server sends
EnvResultNull == "{\"result\": null}"
EnvErrorNull  == "{\"error\": null}"
EnvBothNull   == "{\"result\": null, \"error\": null}"
EnvError      == "{\"error\":{\"code\":123,\"message\":\"something wrong\"}}"
EnvResult     == "{\"result\":3,\"id\":0,\"jsonrpc\":\"2.0\"}"
EnvResultOne  == "{\"result\":4,\"id\":1,\"jsonrpc\":\"2.0\"}"
EnvUnknown    == "{ \"anotherField\": \"norpc\"}"
NotJSON       == "{ \"not\": \"a\", \"json\": \"object\""

Envelopes ==
    {EnvResultNull, EnvErrorNull, EnvBothNull, EnvError, EnvResult, EnvResultOne,
     EnvUnknown}

\* a response body: one JSON text, or a JSON array of texts
Body(array, items) == [array |-> array, items |-> items]

Bodies ==
    { Body(FALSE, <<text>>) : text \in Envelopes \cup {"", "null", NotJSON} }
        \cup {Body(TRUE, <<>>)}
        \cup { Body(TRUE, <<text>>) : text \in Envelopes \cup {"null"} }
        \cup { Body(TRUE, <<t1, t2>>) :
                  t1 \in {EnvResultOne, EnvError}, t2 \in {EnvResult, "null"} }

\* the bytes of a body
RECURSIVE JoinTexts(_)
JoinTexts(items) ==
    IF items = <<>> THEN ""
    ELSE IF Len(items) = 1 THEN items[1]
    ELSE items[1] \o "," \o JoinTexts(Tail(items))

BodyText(body) ==
    IF body.array THEN "[" \o JoinTexts(body.items) \o "]" ELSE body.items[1]

\* what httpClient.Do returns: a transport failure, or a status and a body
Reply(failed, StatusCode, body) ==
    [failed |-> failed, StatusCode |-> StatusCode, body |-> body]

Replies ==
    {Reply(TRUE, 0, Body(FALSE, <<"">>))}
        \cup { Reply(FALSE, status, body) : status \in {200, 399, 400, 500}, body \in Bodies }

\* a batch of one request, and two replies to a batch
OneRequest == <<1>>

RepliesToEveryList ==
    { Reply(FALSE, 200, Body(TRUE, <<EnvResultOne, EnvResult>>)),
      Reply(FALSE, 500, Body(TRUE, <<EnvError>>)) }

\* the outcome of a decoding: the error text ("" for none) and the value
Decoded(err, value) == [err |-> err, value |-> value]

\* Result of a response: json.Number as its text, "nil" for a nil interface
NoResult == "nil"

\* a decoding that ignores the fields it does not know whatever the option
DecodeEnvelope_lenient(text, allowUnknown) ==
    CASE text = "" -> Decoded("EOF", <<>>)
      [] text = "null" -> Decoded("", <<>>)
      [] text = NotJSON -> Decoded("unexpected EOF", <<>>)
      [] text \in {EnvUnknown, EnvResultNull, EnvErrorNull, EnvBothNull} ->
            Decoded("", <<RPCResponse("", NoResult, <<>>, 0)>>)
      [] text = EnvError ->
            Decoded("", <<RPCResponse("", NoResult, <<RPCError(123, "something wrong")>>, 0)>>)
      [] text = EnvResult -> Decoded("", <<RPCResponse("2.0", "3", <<>>, 0)>>)
      [] text = EnvResultOne -> Decoded("", <<RPCResponse("2.0", "4", <<>>, 1)>>)

\* a decoding that takes an empty body for an envelope without members
DecodeEnvelope_emptyAsNull(text, allowUnknown) ==
    CASE text = "null" -> Decoded("", <<>>)
      [] text = NotJSON -> Decoded("unexpected EOF", <<>>)
      [] text = EnvUnknown ->
            IF allowUnknown THEN Decoded("", <<RPCResponse("", NoResult, <<>>, 0)>>)
            ELSE Decoded("json: unknown field \"anotherField\"", <<>>)
      [] text \in {"", EnvResultNull, EnvErrorNull, EnvBothNull} ->
            Decoded("", <<RPCResponse("", NoResult, <<>>, 0)>>)
      [] text = EnvError ->
            Decoded("", <<RPCResponse("", NoResult, <<RPCError(123, "something wrong")>>, 0)>>)
      [] text = EnvResult -> Decoded("", <<RPCResponse("2.0", "3", <<>>, 0)>>)
      [] text = EnvResultOne -> Decoded("", <<RPCResponse("2.0", "4", <<>>, 1)>>)

\* a decoding that wants one of result and error
DecodeEnvelope_strict(text, allowUnknown) ==
    CASE text = "" -> Decoded("EOF", <<>>)
      [] text = "null" -> Decoded("", <<>>)
      [] text = NotJSON -> Decoded("unexpected EOF", <<>>)
      [] text = EnvUnknown ->
            IF allowUnknown THEN Decoded("neither result nor error", <<>>)
            ELSE Decoded("json: unknown field \"anotherField\"", <<>>)
      [] text \in {EnvResultNull, EnvErrorNull, EnvBothNull} ->
            Decoded("neither result nor error", <<>>)
      [] text = EnvError ->
            Decoded("", <<RPCResponse("", NoResult, <<RPCError(123, "something wrong")>>, 0)>>)
      [] text = EnvResult -> Decoded("", <<RPCResponse("2.0", "3", <<>>, 0)>>)
      [] text = EnvResultOne -> Decoded("", <<RPCResponse("2.0", "4", <<>>, 1)>>)

\* json decoding of one JSON text into a *RPCResponse
DecodeEnvelope(text, allowUnknown) ==
    CASE text = "" -> Decoded("EOF", <<>>)
      [] text = "null" -> Decoded("", <<>>)
      [] text = NotJSON -> Decoded("unexpected EOF", <<>>)
      [] text = EnvUnknown ->
            IF allowUnknown THEN Decoded("", <<RPCResponse("", NoResult, <<>>, 0)>>)
            ELSE Decoded("json: unknown field \"anotherField\"", <<>>)
      [] text \in {EnvResultNull, EnvErrorNull, EnvBothNull} ->
            Decoded("", <<RPCResponse("", NoResult, <<>>, 0)>>)
      [] text = EnvError ->
            Decoded("", <<RPCResponse("", NoResult, <<RPCError(123, "something wrong")>>, 0)>>)
      [] text = EnvResult -> Decoded("", <<RPCResponse("2.0", "3", <<>>, 0)>>)
      [] text = EnvResultOne -> Decoded("", <<RPCResponse("2.0", "4", <<>>, 1)>>)

\* decoder.Decode(&rpcResponse) of doCall
DecodeResponse(body, allowUnknown) ==
    IF body.array
    THEN Decoded("json: cannot unmarshal array into Go value of type jsonrpc.RPCResponse", <<>>)
    ELSE DecodeEnvelope(body.items[1], allowUnknown)

\* a decoded RPCResponses: nil, or the list of its pointers
ResponseList(isNil, elems) == [isNil |-> isNil, elems |-> elems]

NilResponses == ResponseList(TRUE, <<>>)

\* decoder.Decode(&rpcResponses) of doBatchCall
DecodeResponses(body, allowUnknown) ==
    IF ~body.array
    THEN CASE body.items[1] = "" -> Decoded("EOF", NilResponses)
           [] body.items[1] = "null" -> Decoded("", NilResponses)
           [] body.items[1] = NotJSON -> Decoded("unexpected EOF", NilResponses)
           [] OTHER ->
                Decoded("json: cannot unmarshal object into Go value of type jsonrpc.RPCResponses",
                        NilResponses)
    ELSE LET each == [i \in 1 .. Len(body.items) |->
                          DecodeEnvelope(body.items[i], allowUnknown)]
         IN  IF \E i \in 1 .. Len(body.items) : each[i].err # ""
             THEN Decoded(each[CHOOSE i \in 1 .. Len(body.items) :
                                  /\ each[i].err # ""
                                  /\ \A j \in 1 .. (i - 1) : each[j].err = ""].err,
                          NilResponses)
             ELSE Decoded("", ResponseList(FALSE, [i \in 1 .. Len(body.items) |-> each[i].value]))

(***************************************************************************)
(* Errors.  kind is "nil" for no error, "error" for an error made by       *)
(* errors.New or fmt.Errorf, "*HTTPError" or "*RPCError" for these types.  *)
(* msg is the text of the error, as the parts fmt.Errorf puts together;    *)
(* Code is HTTPError.Code; rpc is the *RPCError when the error is one.     *)
(***************************************************************************)
GoError(kind, Code, msg, rpc) == [kind |-> kind, Code |-> Code, msg |-> msg, rpc |-> rpc]

NoError == GoError("nil", 0, <<>>, <<>>)

\* fmt.Errorf(...) and errors.New(...)
Errorf(msg) == GoError("error", 0, msg, <<>>)

\* &HTTPError{Code: StatusCode, err: fmt.Errorf(...)}
HTTPError(StatusCode, msg) == GoError("*HTTPError", StatusCode, msg, <<>>)

\* RPCError.Error()
RPCErrorText(e) == ToString(e.Code) \o ": " \o e.Message

\* what a call returns: the *RPCResponse of a single call, the RPCResponses
\* of a batch call, the error
Outcome(response, responses, err) ==
    [response |-> response, responses |-> responses, err |-> err]

\* the status test taken as "above 400"
StatusIsError_above(StatusCode) == StatusCode > 400

\* httpResponse.StatusCode >= 400
StatusIsError(StatusCode) == StatusCode >= 400

\* the parsing error returned as a plain error whatever the status
OnDecodeError_plain(Method, StatusCode, decodeErr) ==
    Outcome(<<>>, NilResponses,
            Errorf(<<"rpc call ", Method, "() on ", endpoint, " status code: ",
                     ToString(StatusCode),
                     ". could not decode body to rpc response: ", decodeErr>>))

\* doCall: parsing error
OnDecodeError(Method, StatusCode, decodeErr) ==
    LET msg == <<"rpc call ", Method, "() on ", endpoint, " status code: ",
                 ToString(StatusCode),
                 ". could not decode body to rpc response: ", decodeErr>>
    IN  IF StatusIsError(StatusCode)
        THEN Outcome(<<>>, NilResponses, HTTPError(StatusCode, msg))
        ELSE Outcome(<<>>, NilResponses, Errorf(msg))

\* the nil response returned without an error
OnMissing_unchecked(Method, StatusCode) ==
    IF StatusIsError(StatusCode)
    THEN Outcome(<<>>, NilResponses,
                 HTTPError(StatusCode, <<"rpc call ", Method, "() on ", endpoint,
                                         " status code: ", ToString(StatusCode),
                                         ". no rpc error available">>))
    ELSE Outcome(<<>>, NilResponses, NoError)

\* doCall: response body empty
OnMissing(Method, StatusCode) ==
    LET msg == <<"rpc call ", Method, "() on ", endpoint, " status code: ",
                 ToString(StatusCode), ". rpc response missing">>
    IN  IF StatusIsError(StatusCode)
        THEN Outcome(<<>>, NilResponses, HTTPError(StatusCode, msg))
        ELSE Outcome(<<>>, NilResponses, Errorf(msg))

\* the response dropped when the status is an error
OnDecoded_errorOnly(Method, StatusCode, rpcResponse) ==
    IF StatusIsError(StatusCode)
    THEN Outcome(<<>>, NilResponses,
                 HTTPError(StatusCode, <<"rpc call ", Method, "() on ", endpoint,
                                         " status code: ", ToString(StatusCode)>>))
    ELSE Outcome(rpcResponse, NilResponses, NoError)

\* a protocol error returned as the error of the call
OnDecoded_rpcErrorReturned(Method, StatusCode, rpcResponse) ==
    IF rpcResponse[1].Error # <<>>
    THEN Outcome(rpcResponse, NilResponses,
                 GoError("*RPCError", 0, <<RPCErrorText(rpcResponse[1].Error[1])>>,
                         rpcResponse[1].Error))
    ELSE IF StatusIsError(StatusCode)
    THEN Outcome(rpcResponse, NilResponses,
                 HTTPError(StatusCode, <<"rpc call ", Method, "() on ", endpoint,
                                         " status code: ", ToString(StatusCode),
                                         ". no rpc error available">>))
    ELSE Outcome(rpcResponse, NilResponses, NoError)

\* doCall: a response body was decoded
OnDecoded(Method, StatusCode, rpcResponse) ==
    IF StatusIsError(StatusCode)
    THEN IF rpcResponse[1].Error # <<>>
         THEN Outcome(rpcResponse, NilResponses,
                      HTTPError(StatusCode,
                                <<"rpc call ", Method, "() on ", endpoint,
                                  " status code: ", ToString(StatusCode),
                                  ". rpc response error: ",
                                  RPCErrorText(rpcResponse[1].Error[1])>>))
         ELSE Outcome(rpcResponse, NilResponses,
                      HTTPError(StatusCode,
                                <<"rpc call ", Method, "() on ", endpoint,
                                  " status code: ", ToString(StatusCode),
                                  ". no rpc error available">>))
    ELSE Outcome(rpcResponse, NilResponses, NoError)

\* json.Marshal of a *RPCRequest
MarshalPointer(request) ==
    IF request = <<>> THEN "null" ELSE MarshalRequest(request[1]).text

\* rpcClient.doCall, after the request was sent (values of this model always
\* marshal, so newRequest does not fail).  Every return but the last one
\* reads RPCRequest.Method, and so does OnDecoded when the status is an
\* error: with a nil request that is a nil pointer dereference
doCall(request, reply, allowUnknown) ==
    LET decoded == DecodeResponse(reply.body, allowUnknown)
        Method  == IF request = <<>> THEN "" ELSE request[1].Method
        readsMethod ==
            \/ reply.failed
            \/ decoded.err # ""
            \/ decoded.value = <<>>
            \/ StatusIsError(reply.StatusCode)
    IN  [panicked |-> request = <<>> /\ readsMethod,
         out |->
            IF request = <<>> /\ readsMethod
            THEN Outcome(<<>>, NilResponses, NoError)
            ELSE IF reply.failed
            THEN Outcome(<<>>, NilResponses,
                         Errorf(<<"rpc call ", Method, "() on ", endpoint, ": ",
                                  "transport failure">>))
            ELSE IF decoded.err # ""
            THEN OnDecodeError(Method, reply.StatusCode, decoded.err)
            ELSE IF decoded.value = <<>>
            THEN OnMissing(Method, reply.StatusCode)
            ELSE OnDecoded(Method, reply.StatusCode, decoded.value)]

\* rpcClient.doBatchCall, after the request was sent
doBatchCall(reply, allowUnknown) ==
    LET decoded == DecodeResponses(reply.body, allowUnknown) IN
    IF reply.failed
    THEN Outcome(<<>>, NilResponses,
                 Errorf(<<"rpc batch call on ", endpoint, ": ", "transport failure">>))
    ELSE IF decoded.err # ""
    THEN LET msg == <<"rpc batch call on ", endpoint, " status code: ",
                      ToString(reply.StatusCode),
                      ". could not decode body to rpc response: ", decoded.err>>
         IN  IF StatusIsError(reply.StatusCode)
             THEN Outcome(<<>>, NilResponses, HTTPError(reply.StatusCode, msg))
             ELSE Outcome(<<>>, NilResponses, Errorf(msg))
    ELSE IF decoded.value.isNil \/ Len(decoded.value.elems) = 0
    THEN LET msg == <<"rpc batch call on ", endpoint, " status code: ",
                      ToString(reply.StatusCode), ". rpc response missing">>
         IN  IF StatusIsError(reply.StatusCode)
             THEN Outcome(<<>>, NilResponses, HTTPError(reply.StatusCode, msg))
             ELSE Outcome(<<>>, NilResponses, Errorf(msg))
    ELSE IF StatusIsError(reply.StatusCode)
    THEN Outcome(<<>>, decoded.value,
                 HTTPError(reply.StatusCode,
                           <<"rpc batch call on ", endpoint, " status code: ",
                             ToString(reply.StatusCode),
                             ". check rpc responses for potential rpc error">>))
    ELSE Outcome(<<>>, decoded.value, NoError)

(***************************************************************************)
(* The calls of rpcClient.  A call takes its inputs and the reply of the   *)
(* server; called keeps what was given, what was sent and what came back.  *)
(***************************************************************************)
NothingSent == "<nothing sent>"

\* the variable a CallFor decodes into: its type and its value
Out(type, value) == [type |-> type, value |-> value]

Outs == {Out("int", "0"), Out("string", "old")}

NoOut == Out("none", "")

Called(op, list, arguments, reply, sentText, sentItems, outcome, result, heapBefore, panicked) ==
    [op |-> op, list |-> list, args |-> arguments, reply |-> reply,
     sentText |-> sentText, sentItems |-> sentItems,
     response |-> outcome.response, responses |-> outcome.responses, err |-> outcome.err,
     result |-> result, heapBefore |-> heapBefore, panicked |-> panicked]

NoCall ==
    Called("none", <<>>, NilSlice, Reply(TRUE, 0, Body(FALSE, <<"">>)), NothingSent, <<>>,
           Outcome(<<>>, NilResponses, NoError), NoOut, <<>>, FALSE)

RPCIdle ==
    /\ allowUnknownFields = FALSE
    /\ heap = <<>>
    /\ called = NoCall

\* NewClientWithOpts and the request objects of the caller
InitRPC ==
    /\ allowUnknownFields \in BOOLEAN
    /\ defaultRequestID \in DefaultRequestIDs
    /\ heap \in Heaps
    /\ called = NoCall

\* the argument lists given to Call and CallFor
CallArgLists ==
    { NilSlice,
      SliceOf(<<GoValue("int", 0, 0, "123", <<>>)>>),
      SliceOf(<<Person>>) }

\* the id 0 whatever the client was configured with
Call_fromZero(Method, arguments, reply) ==
    LET request == RPCRequest(Method, Params(arguments), 0, jsonrpcVersion)
        done    == doCall(<<request>>, reply, allowUnknownFields)
    IN  /\ called = NoCall
        /\ called' = Called("Call", <<>>, arguments, reply, MarshalPointer(<<request>>),
                            <<<<request>>>>, done.out, NoOut, heap, done.panicked)
        /\ UNCHANGED <<allowUnknownFields, heap>>

\* rpcClient.Call(ctx, Method, arguments...)
Call(Method, arguments, reply) ==
    LET request == RPCRequest(Method, Params(arguments), defaultRequestID, jsonrpcVersion)
        done    == doCall(<<request>>, reply, allowUnknownFields)
    IN  /\ called = NoCall
        /\ called' = Called("Call", <<>>, arguments, reply, MarshalPointer(<<request>>),
                            <<<<request>>>>, done.out, NoOut, heap, done.panicked)
        /\ UNCHANGED <<allowUnknownFields, heap>>

\* the caller drops what the call returned; the client and the request objects
\* stay as the call left them
Forget ==
    /\ called # NoCall
    /\ called' = NoCall
    /\ UNCHANGED <<allowUnknownFields, heap>>

\* rpcClient.CallRaw(ctx, request)
CallRaw(a, reply) ==
    LET request == IF a = 0 THEN <<>> ELSE <<heap[a]>>
        done    == doCall(request, reply, allowUnknownFields)
    IN  /\ called = NoCall
        /\ called' = Called("CallRaw", <<a>>, NilSlice, reply, MarshalPointer(request),
                            <<request>>, done.out, NoOut, heap, done.panicked)
        /\ UNCHANGED <<allowUnknownFields, heap>>

\* RPCResponse.GetObject(toType): json.Marshal of Result, json.Unmarshal
\* into toType; null leaves the variable as it is, a number does not fit a
\* string
GetObject(rpcResponse, toType) ==
    IF rpcResponse.Result = NoResult THEN [err |-> NoError, result |-> toType]
    ELSE IF toType.type = "int"
    THEN [err |-> NoError, result |-> Out("int", rpcResponse.Result)]
    ELSE [err |-> Errorf(<<"json: cannot unmarshal number into Go value of type string">>),
          result |-> toType]

\* rpcClient.CallFor(ctx, out, Method, arguments...)
CallFor(toType, Method, arguments, reply) ==
    LET request == RPCRequest(Method, Params(arguments), defaultRequestID, jsonrpcVersion)
        done    == doCall(<<request>>, reply, allowUnknownFields)
        got     == done.out
        final   ==
            IF got.err # NoError THEN [err |-> got.err, result |-> toType]
            ELSE IF got.response[1].Error # <<>>
            THEN [err |-> GoError("*RPCError", 0,
                                  <<RPCErrorText(got.response[1].Error[1])>>,
                                  got.response[1].Error),
                  result |-> toType]
            ELSE GetObject(got.response[1], toType)
    IN  /\ called = NoCall
        /\ called' = Called("CallFor", <<toType>>, arguments, reply, MarshalPointer(<<request>>),
                            <<<<request>>>>,
                            Outcome(got.response, NilResponses, final.err),
                            final.result, heap, done.panicked)
        /\ UNCHANGED <<allowUnknownFields, heap>>

\* the loop of CallBatch over requests[from .. to]:
\* req.ID = i; req.JSONRPC = jsonrpcVersion
RECURSIVE AssignIDs(_, _, _, _)
AssignIDs(h, requests, from, to) ==
    IF from > to THEN h
    ELSE AssignIDs([h EXCEPT ![requests[from]].ID = from - 1,
                             ![requests[from]].JSONRPC = jsonrpcVersion],
                   requests, from + 1, to)

\* json.Marshal(requests) as the list of the marshalled objects
SentItems(h, requests) ==
    [i \in 1 .. Len(requests) |-> IF requests[i] = 0 THEN <<>> ELSE <<h[requests[i]]>>]

SentText(items) ==
    "[" \o JoinTexts([i \in 1 .. Len(items) |-> MarshalPointer(items[i])]) \o "]"

\* CallBatchRaw setting the ids as CallBatch does
CallBatchRaw_assigning(requests, reply) ==
    LET h == AssignIDs(heap, requests, 1, Len(requests)) IN
    /\ called = NoCall
    /\ \A i \in 1 .. Len(requests) : requests[i] # 0
    /\ heap' = h
    /\ called' = Called("CallBatchRaw", requests, NilSlice, reply,
                        SentText(SentItems(h, requests)), SentItems(h, requests),
                        doBatchCall(reply, allowUnknownFields), NoOut, heap, FALSE)
    /\ UNCHANGED allowUnknownFields

\* rpcClient.CallBatchRaw(ctx, requests)
CallBatchRaw(requests, reply) ==
    /\ called = NoCall
    /\ IF Len(requests) = 0
       THEN called' = Called("CallBatchRaw", requests, NilSlice, reply, NothingSent, <<>>,
                             Outcome(<<>>, NilResponses, Errorf(<<"empty request list">>)),
                             NoOut, heap, FALSE)
       ELSE called' = Called("CallBatchRaw", requests, NilSlice, reply,
                             SentText(SentItems(heap, requests)), SentItems(heap, requests),
                             doBatchCall(reply, allowUnknownFields), NoOut, heap, FALSE)
    /\ UNCHANGED <<allowUnknownFields, heap>>

\* rpcClient.CallBatch(ctx, requests): the loop stops with a nil pointer
\* dereference at the first nil pointer of the list
CallBatch(requests, reply) ==
    LET nils     == { i \in 1 .. Len(requests) : requests[i] = 0 }
        firstNil == CHOOSE i \in nils : \A j \in nils : i <= j
    IN  /\ called = NoCall
        /\ IF Len(requests) = 0
           THEN /\ called' = Called("CallBatch", requests, NilSlice, reply, NothingSent, <<>>,
                                    Outcome(<<>>, NilResponses,
                                            Errorf(<<"empty request list">>)),
                                    NoOut, heap, FALSE)
                /\ heap' = heap
           ELSE IF nils # {}
           THEN /\ heap' = AssignIDs(heap, requests, 1, firstNil - 1)
                /\ called' = Called("CallBatch", requests, NilSlice, reply, NothingSent, <<>>,
                                    Outcome(<<>>, NilResponses, NoError), NoOut, heap, TRUE)
           ELSE LET h == AssignIDs(heap, requests, 1, Len(requests)) IN
                /\ heap' = h
                /\ called' = Called("CallBatch", requests, NilSlice, reply,
                                    SentText(SentItems(h, requests)), SentItems(h, requests),
                                    doBatchCall(reply, allowUnknownFields), NoOut, heap, FALSE)
        /\ UNCHANGED allowUnknownFields

(***************************************************************************)
(* RPCClient.Batch of src/jsonrpc.go.  The arguments are interface values: *)
(* pointers to request objects made by NewRPCRequestObject, pointers to    *)
(* notifications, and values of any other type.                            *)
(***************************************************************************)
MaxBatch == 2       \* arguments given to one Batch

BatchElement(kind, ref) == [kind |-> kind, ref |-> ref]

\* the values a Batch is made of when the caller holds Len(objs) requests
BatchElements ==
    { BatchElement("*RPCRequest", r) : r \in { Len(objs) } \ {0} }
        \cup { BatchElement("*RPCNotification", 0),
               BatchElement("*Person", 0),
               BatchElement("RPCRequest", 0) }

\* the type switch of Batch: case *RPCRequest, case *RPCNotification
IsRequestOrNotification(r) == r.kind \in {"*RPCRequest", "*RPCNotification"}

\* the type switch applied to the first argument only
FirstInvalid_headOnly(requests) ==
    IF requests # <<>> /\ ~IsRequestOrNotification(requests[1]) THEN 1 ELSE 0

\* for _, r := range requests: the position of the first argument that takes
\* the default case, 0 when there is none
FirstInvalid(requests) ==
    LET invalid == { i \in 1 .. Len(requests) : ~IsRequestOrNotification(requests[i]) }
    IN  IF invalid = {} THEN 0 ELSE CHOOSE i \in invalid : \A j \in invalid : i <= j

\* what a Batch was given, whether it made its HTTP request, the error it
\* returned, and nextID and the request objects before and after it
Batched(requests, requested, err, idBefore, idAfter, objsBefore, objsAfter) ==
    [requests |-> requests, requested |-> requested, err |-> err,
     idBefore |-> idBefore, idAfter |-> idAfter,
     objsBefore |-> objsBefore, objsAfter |-> objsAfter]

NoBatch == Batched(<<>>, FALSE, "no Batch yet", 0, 0, <<>>, <<>>)

OldBatchIdle == batched = NoBatch

\* RPCClient.Batch(requests...); delivered: httpClient.Do and the decoding
\* of the response succeed
Batch(t, requests, delivered) ==
    /\ ~fatal
    /\ pc[t] = "idle"
    /\ opsLeft > 0
    /\ opsLeft' = opsLeft - 1
    /\ UNCHANGED <<nextID, autoIncrementID, customHeaders, idMutex, pc, frame,
                   objs, log, wire, fatal>>
    /\ IF FirstInvalid(requests) # 0
       THEN batched' = Batched(requests, FALSE,
                               "Invalid parameter: "
                                   \o requests[FirstInvalid(requests)].kind,
                               nextID, nextID', objs, objs')
       ELSE batched' = Batched(requests, TRUE,
                               IF delivered THEN "" ELSE "no response decoded",
                               nextID, nextID', objs, objs')

(***************************************************************************)
(* RPCResponse.GetInt and GetFloat (src/unnamed/part_002).  The decoder    *)
(* is told UseNumber, so a number of the body is kept as the json.Number   *)
(* of its literal and parsed when an accessor asks for it.                 *)
(***************************************************************************)
IntWidth == 8       \* width, in bits, given to Go's int64

MinInt64 == -(2 ^ (IntWidth - 1))
MaxInt64 == 2 ^ (IntWidth - 1) - 1

\* the result member of a body: a number as it is written (its integer part
\* and the digits after the point, "" when there is no point), a string,
\* null, true or false
Member(kind, whole, fraction, text) ==
    [kind |-> kind, whole |-> whole, fraction |-> fraction, text |-> text]

NumberMember(whole, fraction) ==
    Member("number", whole, fraction,
           ToString(whole) \o (IF fraction = "" THEN "" ELSE "." \o fraction))

Members ==
    { NumberMember(whole, fraction) :
          whole \in {MinInt64, -1, 0, 1, 42, 123, MaxInt64, MaxInt64 + 1},
          fraction \in {"", "5", "234"} }
        \cup { Member("string", 0, "", "notAnInt"), Member("string", 0, "", "notfloat"),
               Member("null", 0, "", "null"),
               Member("bool", 0, "", "true"), Member("bool", 0, "", "false") }

\* numbers decoded into float64, as a decoder does that was not told UseNumber
DecodeResult_float64(member) ==
    CASE member.kind = "number" -> [type |-> "float64", member |-> member]
      [] member.kind = "string" -> [type |-> "string", member |-> member]
      [] member.kind = "bool" -> [type |-> "bool", member |-> member]
      [] member.kind = "null" -> [type |-> "nil", member |-> member]

\* the Result interface{} the decoder makes of the member: decoder.UseNumber()
DecodeResult(member) ==
    CASE member.kind = "number" -> [type |-> "json.Number", member |-> member]
      [] member.kind = "string" -> [type |-> "string", member |-> member]
      [] member.kind = "bool" -> [type |-> "bool", member |-> member]
      [] member.kind = "null" -> [type |-> "nil", member |-> member]

\* a float64 whose decimal writing is whole.fraction
Float(whole, fraction) == [whole |-> whole, fraction |-> fraction]

Got(value, err) == [value |-> value, err |-> err]

\* json.Number.Int64: strconv.ParseInt(string(n), 10, 64)
Int64(member) ==
    IF member.fraction # ""
    THEN Got(0, "strconv.ParseInt: parsing " \o member.text \o ": invalid syntax")
    ELSE IF member.whole < MinInt64 \/ member.whole > MaxInt64
    THEN Got(IF member.whole < 0 THEN MinInt64 ELSE MaxInt64,
             "strconv.ParseInt: parsing " \o member.text \o ": value out of range")
    ELSE Got(member.whole, "")

\* json.Number.Float64: strconv.ParseFloat(string(n), 64)
Float64(member) == Got(Float(member.whole, member.fraction), "")

\* RPCResponse.GetInt
GetInt(Result) ==
    IF Result.type # "json.Number"
    THEN Got(0, "could not parse int64 from " \o Result.member.text)
    ELSE IF Int64(Result.member).err # ""
    THEN Got(0, Int64(Result.member).err)
    ELSE Got(Int64(Result.member).value, "")

\* RPCResponse.GetFloat
GetFloat(Result) ==
    IF Result.type # "json.Number"
    THEN Got(Float(0, ""), "could not parse float64 from " \o Result.member.text)
    ELSE IF Float64(Result.member).err # ""
    THEN Got(Float(0, ""), Float64(Result.member).err)
    ELSE Got(Float64(Result.member).value, "")

Unread(zero) == Got(zero, "not called")

\* a decoded response and what its accessors returned
Accessed(Result, int, float) == [Result |-> Result, int |-> int, float |-> float]

AccessIdle == accessed = Accessed(DecodeResult(Member("null", 0, "", "null")), Unread(0), Unread(Float(0, "")))

InitAccess ==
    \E member \in Members : accessed = Accessed(DecodeResult(member), Unread(0), Unread(Float(0, "")))

CallGetInt ==
    /\ accessed.int = Unread(0)
    /\ accessed' = [accessed EXCEPT !.int = GetInt(accessed.Result)]

CallGetFloat ==
    /\ accessed.float = Unread(Float(0, ""))
    /\ accessed' = [accessed EXCEPT !.float = GetFloat(accessed.Result)]

(***************************************************************************)
(* What Call, Notification and NewRPCNotificationObject of RPCClient       *)
(* (src/jsonrpc.go) hand back to the goroutine that called them.           *)
(***************************************************************************)
\* the operation, the entry of log its allocation made (0 for none), the id,
\* the reply of the server, the error ("" for nil) and the body that was
\* serialised
Ret(op, n, id, reply, err, body) ==
    [op |-> op, n |-> n, id |-> id, reply |-> reply, err |-> err, body |-> body]

NoReturn ==
    Ret("none", 0, 0, Reply(FALSE, 0, Body(FALSE, <<"">>)), "", [hasID |-> FALSE, text |-> ""])

ReturnIdle == returned = [t \in Threads |-> NoReturn]

\* the replies given to RPCClient: a transport failure, or a status and a body
OldReplies ==
    {Reply(TRUE, 0, Body(FALSE, <<"">>))}
        \cup { Reply(FALSE, 200, Body(FALSE, <<text>>)) : text \in {"", EnvResult} }
        \cup { Reply(FALSE, 500, Body(FALSE, <<text>>)) : text \in {NotJSON, EnvError} }

\* no request was made
NoReply == Reply(FALSE, 0, Body(FALSE, <<"">>))

\* the id left out when it is 0, as omitempty would do
MarshalOld_omitempty(notification, id) ==
    [hasID |-> ~notification /\ id # 0,
     text  |-> "{\"jsonrpc\":\"2.0\",\"method\":\"m\""
               \o (IF notification \/ id = 0 THEN "" ELSE ",\"id\":" \o ToString(id))
               \o "}"]

\* json.Marshal of the RPCRequest (fields jsonrpc, method, params, id) or of
\* the RPCNotification (fields jsonrpc, method, params) built without params
MarshalOld(notification, id) ==
    [hasID |-> ~notification,
     text  |-> "{\"jsonrpc\":\"2.0\",\"method\":\"m\""
               \o (IF notification THEN "" ELSE ",\"id\":" \o ToString(id))
               \o "}"]

NotMarshalled == [hasID |-> FALSE, text |-> ""]

\* newRequest: json.Marshal(rpcRequest) fails, the params being of a type
\* that has no JSON form; Call and Notification return the error
NewRequestMarshalFails(t) ==
    /\ At(t, "nr_range")
    /\ returned' = [returned EXCEPT
                      ![t] = Ret(frame[t].op, frame[t].n, frame[t].id, NoReply,
                                 "json: unsupported type", NotMarshalled)]
    /\ Return(t)
    /\ UNCHANGED <<nextID, autoIncrementID, customHeaders, idMutex, objs, log, wire,
                   fatal, opsLeft>>

\* RPCClient.doCall, json decoding into an RPCResponse struct
OldDecodeError(reply) ==
    CASE reply.body.items[1] = "" -> "EOF"
      [] reply.body.items[1] = NotJSON -> "unexpected EOF"
      [] OTHER -> ""

\* a failed Call putting its id back
CallReturns_reclaiming(t, reply) ==
    /\ At(t, "do")
    /\ frame[t].op = "Call"
    /\ wire' = IF reply.failed THEN wire ELSE wire \cup {WireEntry(t)}
    /\ nextID' = IF reply.failed \/ OldDecodeError(reply) # "" THEN frame[t].id ELSE nextID
    /\ returned' = [returned EXCEPT
                      ![t] = Ret("Call", frame[t].n, frame[t].id, reply,
                                 IF reply.failed THEN "transport failure"
                                 ELSE OldDecodeError(reply),
                                 MarshalOld(FALSE, frame[t].id))]
    /\ Return(t)
    /\ UNCHANGED <<autoIncrementID, customHeaders, idMutex, objs, log, fatal, opsLeft>>

\* RPCClient.Call from client.doCall(httpRequest) on: httpClient.Do, the
\* decoding of the body, the return
CallReturns(t, reply) ==
    /\ At(t, "do")
    /\ frame[t].op = "Call"
    /\ wire' = IF reply.failed THEN wire ELSE wire \cup {WireEntry(t)}
    /\ returned' = [returned EXCEPT
                      ![t] = Ret("Call", frame[t].n, frame[t].id, reply,
                                 IF reply.failed THEN "transport failure"
                                 ELSE OldDecodeError(reply),
                                 MarshalOld(FALSE, frame[t].id))]
    /\ Return(t)
    /\ UNCHANGED <<nextID, autoIncrementID, customHeaders, idMutex, objs, log, fatal,
                   opsLeft>>

\* a Notification reading the response as Call does
NotificationReturns_decoding(t, reply) ==
    /\ At(t, "do")
    /\ frame[t].op = "Notification"
    /\ wire' = IF reply.failed THEN wire ELSE wire \cup {WireEntry(t)}
    /\ returned' = [returned EXCEPT
                      ![t] = Ret("Notification", 0, 0, reply,
                                 IF reply.failed THEN "transport failure"
                                 ELSE OldDecodeError(reply),
                                 MarshalOld(TRUE, 0))]
    /\ Return(t)
    /\ UNCHANGED <<nextID, autoIncrementID, customHeaders, idMutex, objs, log, fatal,
                   opsLeft>>

\* RPCClient.Notification from httpClient.Do(httpRequest) on: the body is
\* closed and nil is returned
NotificationReturns(t, reply) ==
    /\ At(t, "do")
    /\ frame[t].op = "Notification"
    /\ wire' = IF reply.failed THEN wire ELSE wire \cup {WireEntry(t)}
    /\ returned' = [returned EXCEPT
                      ![t] = Ret("Notification", 0, 0, reply,
                                 IF reply.failed THEN "transport failure" ELSE "",
                                 MarshalOld(TRUE, 0))]
    /\ Return(t)
    /\ UNCHANGED <<nextID, autoIncrementID, customHeaders, idMutex, objs, log, fatal,
                   opsLeft>>

\* RPCClient.NewRPCNotificationObject(method): the object, as json.Marshal
\* writes it
NewRPCNotificationObject(t) ==
    /\ ~fatal
    /\ pc[t] = "idle"
    /\ opsLeft > 0
    /\ opsLeft' = opsLeft - 1
    /\ returned' = [returned EXCEPT
                      ![t] = Ret("NewRPCNotificationObject", 0, 0, NoReply, "",
                                 MarshalOld(TRUE, 0))]
    /\ UNCHANGED <<nextID, autoIncrementID, customHeaders, idMutex, pc, frame, objs, log,
                   wire, fatal>>

(***************************************************************************)
(* The client shared by NumThreads goroutines.                             *)
(***************************************************************************)
ClientStep ==
    \E t \in Threads :
        \/ InvokeCall(t)
        \/ InvokeNotification(t)
        \/ NewRequestLock(t)
        \/ NewRequestCheck(t)
        \/ NewRequestIncr(t)
        \/ NewRequestRange(t)
        \/ DoCall(t)
        \/ NotificationDo(t)
        \/ InvokeNewRPCRequestObject(t)
        \/ NewObjectLock(t)
        \/ NewObjectCheck(t)
        \/ NewObjectIncr(t)
        \/ \E r \in 0 .. MaxOps : InvokeUpdateRequestID(t, r)
        \/ UpdateRequestIDLock(t)
        \/ UpdateRequestIDCheck(t)
        \/ UpdateRequestIDIncr(t)
        \/ \E id \in NextIDChoices : InvokeSetNextID(t, id)
        \/ SetNextIDLock(t)
        \/ SetNextIDWrite(t)
        \/ \E flag \in BOOLEAN : InvokeSetAutoIncrementID(t, flag)
        \/ SetAutoIncrementIDWrite(t)

Next == ClientStep /\ UNCHANGED <<paramsVars, batchVars, mapVars, rpcVars, batched, accessed, returned>>

Init ==
    /\ ClientInit
    /\ ParamsIdle
    /\ BatchIdle
    /\ MapIdle
    /\ RPCIdle
    /\ OldBatchIdle
    /\ AccessIdle
    /\ ReturnIdle

Spec == Init /\ [][Next]_vars

(***************************************************************************)
(* The same client with the header setters invoked as well.  They write    *)
(* customHeaders only, so every state of Spec is a state of SpecHeaders    *)
(* and nextID, autoIncrementID, objs, log and wire take the same values in *)
(* both.                                                                   *)
(***************************************************************************)
HeaderStep ==
    \E t \in Threads :
        \/ InvokeSetCustomHeader(t, "Test", "test")
        \/ SetCustomHeaderWrite(t)
        \/ InvokeUnsetCustomHeader(t, "Test")
        \/ UnsetCustomHeaderWrite(t)
        \/ \E username \in {"", "u"} : InvokeSetBasicAuth(t, username, "p")
        \/ SetBasicAuthWrite(t)

NextHeaders ==
    Next \/ (HeaderStep /\ UNCHANGED <<paramsVars, batchVars, mapVars, rpcVars, batched, accessed, returned>>)

SpecHeaders == Init /\ [][NextHeaders]_vars

(***************************************************************************)
(* The client making request objects and sending them in batches.          *)
(***************************************************************************)
NextOldBatch ==
    /\ \E t \in Threads :
          \/ InvokeNewRPCRequestObject(t) /\ UNCHANGED batched
          \/ NewObjectLock(t) /\ UNCHANGED batched
          \/ NewObjectCheck(t) /\ UNCHANGED batched
          \/ NewObjectIncr(t) /\ UNCHANGED batched
          \/ \E requests \in SeqsOf(BatchElements, 0, MaxBatch), delivered \in BOOLEAN :
                Batch(t, requests, delivered)
    /\ UNCHANGED <<paramsVars, batchVars, mapVars, rpcVars, accessed, returned>>

SpecOldBatch == Init /\ [][NextOldBatch]_vars

(***************************************************************************)
(* The client making calls and notifications, with what they return.       *)
(***************************************************************************)
NextCalls ==
    /\ \E t \in Threads :
          \/ InvokeCall(t) /\ UNCHANGED returned
          \/ InvokeNotification(t) /\ UNCHANGED returned
          \/ NewRequestLock(t) /\ UNCHANGED returned
          \/ NewRequestCheck(t) /\ UNCHANGED returned
          \/ NewRequestIncr(t) /\ UNCHANGED returned
          \/ NewRequestMarshalFails(t)
          \/ NewRequestRange(t) /\ UNCHANGED returned
          \/ \E reply \in OldReplies : CallReturns(t, reply)
          \/ \E reply \in OldReplies : NotificationReturns(t, reply)
          \/ NewRPCNotificationObject(t)
    /\ UNCHANGED <<paramsVars, batchVars, mapVars, rpcVars, batched, accessed>>

SpecCalls == Init /\ [][NextCalls]_vars

(***************************************************************************)
(* One request built from every argument list.                             *)
(***************************************************************************)
InitParams ==
    /\ ClientInit
    /\ BatchIdle
    /\ MapIdle
    /\ RPCIdle
    /\ OldBatchIdle
    /\ AccessIdle
    /\ ReturnIdle
    /\ args \in ArgLists
    /\ method \in Methods
    /\ defaultRequestID \in DefaultRequestIDs
    /\ sent = NoRequest

NextParams ==
    /\ \/ ParamsLiteral
       \/ NewRequest
       \/ rpcClientCall
    /\ UNCHANGED <<clientVars, batchVars, mapVars, rpcVars, batched, accessed, returned>>

SpecParams == InitParams /\ [][NextParams]_vars

(***************************************************************************)
(* One request built from every argument list, by NewRequest on the list  *)
(* or on what Params made of the list.                                     *)
(***************************************************************************)
NextParamsTwice ==
    /\ \/ NewRequest
       \/ NewRequestOfParams
    /\ UNCHANGED <<clientVars, batchVars, mapVars, rpcVars, batched, accessed, returned>>

SpecParamsTwice == InitParams /\ [][NextParamsTwice]_vars

(***************************************************************************)
(* One lookup in every batch response.                                     *)
(***************************************************************************)
InitBatch ==
    /\ ClientInit
    /\ ParamsIdle
    /\ MapIdle
    /\ RPCIdle
    /\ OldBatchIdle
    /\ AccessIdle
    /\ ReturnIdle
    /\ rpcResponses \in SeqsOf(RPCResponses, 0, MaxResponses)
    /\ lookup \in {<<>>} \cup { <<[ID |-> id]>> : id \in 0 .. MaxRespID }
    /\ found = NotCalled

NextBatch == CallGetResponseOf /\ UNCHANGED <<clientVars, paramsVars, mapVars, rpcVars, batched, accessed, returned>>

SpecBatch == InitBatch /\ [][NextBatch]_vars

(***************************************************************************)
(* AsMap of every response list.                                           *)
(***************************************************************************)
InitAsMap ==
    /\ ClientInit
    /\ ParamsIdle
    /\ BatchIdle
    /\ RPCIdle
    /\ OldBatchIdle
    /\ AccessIdle
    /\ ReturnIdle
    /\ responseList \in SeqsOf(ResponsePointers, 0, MaxResponses)
    /\ asMap = NotMapped

NextAsMap == CallAsMap /\ UNCHANGED <<clientVars, paramsVars, batchVars, rpcVars, batched, accessed, returned>>

SpecAsMap == InitAsMap /\ [][NextAsMap]_vars

(***************************************************************************)
(* One call on an rpcClient, with every reply of the server.  A batch call  *)
(* decodes the reply without looking at the requests it sent: every reply  *)
(* answers the batch OneRequest and every batch gets RepliesToEveryList.   *)
(***************************************************************************)
InitRPCClient ==
    /\ ClientInit
    /\ BatchIdle
    /\ MapIdle
    /\ args = NilSlice
    /\ method = ""
    /\ sent = NoRequest
    /\ OldBatchIdle
    /\ AccessIdle
    /\ ReturnIdle
    /\ InitRPC

NextRPC ==
    /\ \E reply \in Replies :
          \/ \E arguments \in CallArgLists : Call("something", arguments, reply)
          \/ \E toType \in Outs, arguments \in CallArgLists :
                CallFor(toType, "something", arguments, reply)
          \/ \E a \in {0} \cup Addresses : CallRaw(a, reply)
          \/ \E requests \in RequestLists :
                /\ requests = OneRequest \/ reply \in RepliesToEveryList
                /\ CallBatch(requests, reply)
          \/ \E requests \in RequestLists :
                /\ requests = OneRequest \/ reply \in RepliesToEveryList
                /\ CallBatchRaw(requests, reply)
    /\ UNCHANGED <<clientVars, paramsVars, batchVars, mapVars, batched, accessed, returned>>

SpecRPC == InitRPCClient /\ [][NextRPC]_vars

(***************************************************************************)
(* Calls of one rpcClient that follow one another.  A call reads the      *)
(* client's fields and writes none of them, so that calls made by         *)
(* several goroutines act as the same calls made in some order.           *)
(***************************************************************************)
NextRPCSeq ==
    /\ \/ \E reply \in Replies, arguments \in CallArgLists :
             Call("something", arguments, reply)
       \/ \E reply \in RepliesToEveryList, toType \in Outs, arguments \in CallArgLists :
             CallFor(toType, "something", arguments, reply)
       \/ \E reply \in RepliesToEveryList, requests \in RequestLists :
             CallBatch(requests, reply)
       \/ Forget
    /\ UNCHANGED <<clientVars, paramsVars, batchVars, mapVars, batched, accessed, returned>>

SpecRPCSeq == InitRPCClient /\ [][NextRPCSeq]_vars

(***************************************************************************)
(* GetInt and GetFloat on the response of every result member.             *)
(***************************************************************************)
InitAccessors ==
    /\ ClientInit
    /\ ParamsIdle
    /\ BatchIdle
    /\ MapIdle
    /\ RPCIdle
    /\ OldBatchIdle
    /\ ReturnIdle
    /\ InitAccess

NextAccessors ==
    /\ CallGetInt \/ CallGetFloat
    /\ UNCHANGED <<clientVars, paramsVars, batchVars, mapVars, rpcVars, batched, returned>>

SpecAccessors == InitAccessors /\ [][NextAccessors]_vars

(***************************************************************************)
(* Claims about identifier allocation.                                     *)
(***************************************************************************)
IsAlloc(e) == e.op \in {"Call", "NewRPCRequestObject", "UpdateRequestID"}

\* The log entries i .. j are all allocations made by Call
OnlyCalls(i, j) == \A m \in i .. j : log[m].op = "Call"

\* SetAutoIncrementID(false) has taken effect before log entry j
TurnedOffBefore(j) ==
    \E m \in 1 .. (j - 1) : log[m].op = "SetAutoIncrementID" /\ ~log[m].flag

CallsOnWire == {w \in wire : ~w.notification}

\* C1: on the autoincrementing client (nextID 0 at construction, or k after
\* SetNextID(k)), the requests sent by N Calls that follow one another with no
\* other id-consuming or id-setting operation in between carry the ids
\* k, k+1, ..., k+N-1 (in uint arithmetic) in call order.  Every request on the
\* wire carries the id its Call allocated; the first Call of a fresh client sends
\* id 0; the first Call after SetNextID(k) sends k; and each Call sends the id of
\* the Call before it plus one.
C1_SequentialCallIds ==
    /\ \A w \in CallsOnWire :
          /\ w.n \in 1 .. Len(log)
          /\ log[w.n].op = "Call"
          /\ log[w.n].id = w.id
    /\ \A w \in CallsOnWire :
          OnlyCalls(1, w.n) => w.id = (w.n - 1) % UintMod
    /\ \A w \in CallsOnWire : \A i \in 1 .. (w.n - 1) :
          (log[i].op = "SetNextID" /\ OnlyCalls(i + 1, w.n) /\ ~TurnedOffBefore(w.n))
             => w.id = (log[i].id + (w.n - i - 1)) % UintMod
    /\ \A w1 \in CallsOnWire : \A w2 \in CallsOnWire :
          (w1.n < w2.n /\ OnlyCalls(w1.n, w2.n) /\ ~TurnedOffBefore(w2.n))
             => w2.id = (w1.id + (w2.n - w1.n)) % UintMod

\* Two Calls in a row right after SetNextID(UintMod - 1) have both been sent:
\* the ids are the largest uint and then 0.
C1_Witness ==
    \E w1 \in CallsOnWire : \E w2 \in CallsOnWire :
        /\ w1.n > 1
        /\ w2.n = w1.n + 1
        /\ log[w1.n - 1].op = "SetNextID"
        /\ log[w1.n - 1].id = UintMod - 1
        /\ w1.id = UintMod - 1
        /\ w2.id = 0

\* No SetNextID and no SetAutoIncrementID(true) took effect in log entries i .. j
NoResetIn(i, j) ==
    \A m \in i .. j : /\ log[m].op # "SetNextID"
                      /\ ~(log[m].op = "SetAutoIncrementID" /\ log[m].flag)

\* The value nextID is frozen at by the SetAutoIncrementID(false) of entry e:
\* the value nextID had when the flag was written, once the allocation that had
\* already tested the flag (if there was one) has made its increment.
FrozenID(e) == IF e.pending THEN (e.id + 1) % UintMod ELSE e.id

C3_ConcurrentAllocation ==
    (/\ \A m \in 1 .. Len(log) : IsAlloc(log[m])
     /\ Len(log) <= UintMod)
        => /\ \A i \in 1 .. Len(log) : \A j \in 1 .. Len(log) :
                 i # j => log[i].id # log[j].id
           /\ idMutex = 0 => nextID = Len(log) % UintMod

\* One goroutine is inside its allocation, holding idMutex, while another waits
\* for the mutex, and an allocation has completed before.
C3_Witness ==
    /\ \A m \in 1 .. Len(log) : IsAlloc(log[m])
    /\ Len(log) >= 2
    /\ \E t \in Threads : \E u \in Threads \ {t} :
          /\ idMutex = t
          /\ pc[t] \in {"nr_incr", "no_incr", "ur_incr"}
          /\ pc[u] \in {"nr_lock", "no_lock", "ur_lock"}

\* C4: every mutation and every read-modify-write of the client's shared state
\* (nextID, autoIncrementID, customHeaders) is made by a goroutine that holds
\* idMutex.
C4_MutationsHoldMutex ==
    \A t \in Threads :
        pc[t] \in {"nr_check", "nr_incr", "no_check", "no_incr", "ur_check", "ur_incr",
                   "sn_write", "sai_write", "sch_write", "uch_write", "sba_write"}
            => idMutex = t

(***************************************************************************)
(* Claims about the normalisation of params.                               *)
(***************************************************************************)
\* the body of a request without a params key
TextWithoutParams(req) ==
    "{\"method\":\"" \o req.Method \o "\",\"id\":" \o ToString(req.ID)
        \o ",\"jsonrpc\":\"" \o req.JSONRPC \o "\"}"

\* the body of a request whose params key holds the text p
TextWithParams(req, p) ==
    "{\"method\":\"" \o req.Method \o "\",\"params\":" \o p \o ",\"id\":"
        \o ToString(req.ID) \o ",\"jsonrpc\":\"" \o req.JSONRPC \o "\"}"

\* an empty slice, array, struct or map (not a nil one)
EmptyContainers ==
    { SliceOf(<<>>),
      GoValue("slice", 0, 0, "[]int{}", <<>>),
      GoValue("array", 0, 0, "[0]int{}", <<>>),
      GoValue("struct", 0, 0, "struct{}{}", <<>>),
      GoValue("map", 0, 0, "map[string]int{}", <<>>) }

\* C5: the serialised request has no params key if and only if the call was
\* given zero arguments, for every method and each of Call, NewRequest and
\* Params; one empty slice, array, struct or map is emitted as "params":[]
\* or "params":{} and not omitted.
C5_ParamsOmittedIffNoArguments ==
    sent # NoRequest =>
        /\ sent.body.hasParams <=> len(args) # 0
        /\ sent.body.text = TextWithoutParams(sent.req) <=> len(args) = 0
        /\ (len(args) = 1 /\ args.elems[1] \in EmptyContainers) =>
              /\ sent.body.params.text =
                    (IF args.elems[1].kind \in {"struct", "map"} THEN "{}" ELSE "[]")
              /\ sent.body.text = TextWithParams(sent.req, sent.body.params.text)

C5_Witness ==
    /\ sent.by = "Call"
    /\ args = SliceOf(<<GoValue("map", 0, 0, "map[string]int{}", <<>>)>>)
    /\ sent.body.text = TextWithParams(sent.req, "{}")

\* C6: for exactly one argument that is nil or a bool, number or string,
\* Params returns the one-element array holding that argument, which is
\* serialised as [v] ([null] for nil) and so differs from the call without
\* arguments.
C6_SingleScalarWrapped ==
    (/\ sent # NoRequest
     /\ len(args) = 1
     /\ \/ args.elems[1] = GoNil
        \/ args.elems[1].kind \in Scalars /\ args.elems[1].depth = 0) =>
        /\ sent.req.Params = SliceOf(<<args.elems[1]>>)
        /\ sent.body.params = JSON("array", "[" \o Marshal(args.elems[1]).text \o "]")
        /\ sent.body.text # TextWithoutParams(sent.req)
        /\ args.elems[1] = GoNil => sent.body.params.text = "[null]"

C6_Witness ==
    /\ sent.by = "Call"
    /\ args = SliceOf(<<GoNil>>)
    /\ sent.body.text = TextWithParams(sent.req, "[null]")

\* the pointer chain of v leads to a value: no nil pointer, slice, map
HoldsValue(v) == v.nilAt = 0 /\ v.base # "nil"

C8_MultipleArgumentsArrayed ==
    (sent # NoRequest /\ len(args) >= 2) =>
        /\ sent.req.Params.kind = "slice"
        /\ sent.req.Params.depth = 0
        /\ Len(sent.req.Params.elems) = len(args)
        /\ \A i \in 1 .. len(args) : sent.req.Params.elems[i] = args.elems[i]
        /\ sent.body.params = JSON("array", "[" \o MarshalElems(args.elems) \o "]")

C8_Witness ==
    /\ sent.by = "NewRequest"
    /\ len(args) = 3
    /\ args.elems[1] = Person
    /\ args.elems[2] = GoNil
    /\ args.elems[3] = GoValue("slice", 0, 0, "[]int{1,2}", <<>>)
    /\ sent.body.params.text =
          "[{\"name\":\"Alex\",\"age\":35,\"country\":\"Germany\"},null,[1,2]]"

\* C9: for every argument list given to Call, NewRequest or Params, the
\* params value on the wire is absent, a JSON array or a JSON object; it is
\* never a bare scalar and never null.
C9_ParamsArrayOrObject ==
    sent # NoRequest => sent.body.params.shape \in {"absent", "array", "object"}

(***************************************************************************)
(* Claims about batch responses.                                           *)
(***************************************************************************)
\* C10: for every batch response list, in whatever order, and every non-nil
\* request, GetResponseOf returns a response of the list whose ID is the
\* request's ID; it returns the not-found error exactly when no response of
\* the list has that ID, and an error when the request is nil.
C10_GetResponseOfById ==
    found # NotCalled =>
        /\ lookup = <<>> => (found.response = <<>> /\ found.err = "parameter cannot be nil")
        /\ lookup # <<>> =>
              LET present == \E i \in 1 .. Len(rpcResponses) :
                                 rpcResponses[i].ID = lookup[1].ID
              IN  /\ present =>
                        /\ found.err = ""
                        /\ found.response # <<>>
                        /\ found.response[1].ID = lookup[1].ID
                        /\ \E i \in 1 .. Len(rpcResponses) :
                               rpcResponses[i] = found.response[1]
                  /\ ~present =>
                        /\ found.response = <<>>
                        /\ found.err = "element with id " \o ToString(lookup[1].ID)
                                           \o " not found"

C10_Witness ==
    /\ Len(rpcResponses) = 3
    /\ rpcResponses[1].ID = 2
    /\ rpcResponses[2].ID = 0
    /\ rpcResponses[3] = [ID |-> 1, Result |-> "b"]
    /\ lookup = <<[ID |-> 1]>>
    /\ found = Returned(<<rpcResponses[3]>>, "")

\* C11: AsMap returns a map whose keys are exactly the ids occurring in the
\* response list and whose value for each id is a response of the list
\* with that id; of several responses with one id the last of the list is
\* the one kept.
C11_AsMapLastWins ==
    (asMap # NotMapped /\ \A i \in 1 .. Len(responseList) : responseList[i] # <<>>) =>
        /\ ~asMap.panicked
        /\ DOMAIN asMap.resMap = { responseList[i][1].ID : i \in 1 .. Len(responseList) }
        /\ \A id \in DOMAIN asMap.resMap :
              \E i \in 1 .. Len(responseList) :
                  /\ responseList[i][1].ID = id
                  /\ asMap.resMap[id] = responseList[i][1]
                  /\ \A j \in (i + 1) .. Len(responseList) : responseList[j][1].ID # id

C11_Witness ==
    /\ Len(responseList) = 3
    /\ responseList[1] = <<RPCResponse("2.0", "a", <<>>, 1)>>
    /\ responseList[2] = <<RPCResponse("2.0", "a", <<>>, 0)>>
    /\ responseList[3] = <<RPCResponse("2.0", "b", <<>>, 1)>>
    /\ asMap # NotMapped
    /\ DOMAIN asMap.resMap = {0, 1}
    /\ asMap.resMap[1].Result = "b"

(***************************************************************************)
(* Claims about the calls of rpcClient.                                    *)
(***************************************************************************)
Transmitted == called.sentText # NothingSent

\* C12: for every non-empty request list given to CallBatch, whatever ids
\* and versions the caller set and whatever pointers the list holds, the
\* i-th element of the transmitted array (counted from 0) has id i and
\* jsonrpc "2.0".
C12_BatchIdsArePositions ==
    (called.op = "CallBatch" /\ Transmitted) =>
        /\ Len(called.sentItems) = Len(called.list)
        /\ \A i \in 1 .. Len(called.sentItems) :
              /\ called.sentItems[i][1].ID = i - 1
              /\ called.sentItems[i][1].JSONRPC = jsonrpcVersion

\* the request object an element of the given list pointed to when the call
\* was made
Provided(i) ==
    IF called.list[i] = 0 THEN <<>> ELSE <<called.heapBefore[called.list[i]]>>

\* C13: CallRaw and CallBatchRaw transmit the request objects of the caller
\* as they were provided and leave them as they were: the id and the
\* version are the caller's, and a scalar Params is sent as a bare scalar.
C13_RawCallsSendAsProvided ==
    (called.op \in {"CallRaw", "CallBatchRaw"} /\ Transmitted) =>
        /\ heap = called.heapBefore
        /\ Len(called.sentItems) = Len(called.list)
        /\ \A i \in 1 .. Len(called.list) :
              /\ called.sentItems[i] = Provided(i)
              /\ (Provided(i) # <<>> /\ Provided(i)[1].Params.kind \in Scalars) =>
                    MarshalRequest(called.sentItems[i][1]).params =
                        JSON("scalar", Provided(i)[1].Params.base)
        /\ called.op = "CallRaw" => called.sentText = MarshalPointer(Provided(1))
        /\ called.op = "CallBatchRaw" =>
              called.sentText =
                  "[" \o JoinTexts([i \in 1 .. Len(called.list) |->
                                       MarshalPointer(Provided(i))]) \o "]"

C13_Witness ==
    /\ called.op = "CallBatchRaw"
    /\ called.list = <<1, 2>>
    /\ called.heapBefore = HeapAsInTest
    /\ heap = HeapAsInTest
    /\ called.sentText =
          "[{\"method\":\"myMethod1\",\"params\":123,\"id\":123,\"jsonrpc\":\"7.0\"},"
          \o "{\"method\":\"myMethod2\","
          \o "\"params\":{\"name\":\"Alex\",\"age\":35,\"country\":\"Germany\"},"
          \o "\"id\":124,\"jsonrpc\":\"7.0\"}]"

(***************************************************************************)
(* Claims about RPCClient.Batch.                                           *)
(***************************************************************************)
\* C14: a Batch whose argument list holds, at any position, a value that is
\* neither a *RPCRequest nor a *RPCNotification returns an error and makes
\* no HTTP request; nextID and the request objects are as they were.
C14_InvalidBatchRejected ==
    (/\ batched # NoBatch
     /\ \E i \in 1 .. Len(batched.requests) :
           ~IsRequestOrNotification(batched.requests[i])) =>
        /\ batched.err # ""
        /\ ~batched.requested
        /\ batched.idAfter = batched.idBefore
        /\ batched.objsAfter = batched.objsBefore

C14_Witness ==
    /\ batched.requests = <<BatchElement("*RPCRequest", 1), BatchElement("*Person", 0)>>
    /\ batched.err = "Invalid parameter: *Person"
    /\ ~batched.requested
    /\ batched.idBefore = 1
    /\ nextID = 1
    /\ objs = batched.objsBefore
    /\ Len(objs) = 1

(***************************************************************************)
(* Claims about the errors of rpcClient.  They are stated on the reply     *)
(* that was given and on what the call returned.                           *)
(***************************************************************************)
Status == called.reply.StatusCode

Answered == ~called.panicked /\ Transmitted /\ ~called.reply.failed

\* the body is one envelope with the error member of the tests
ProtocolErrorBody == called.reply.body = Body(FALSE, <<EnvError>>)

UndecodableBody ==
    LET body == called.reply.body IN
    \/ \E i \in 1 .. Len(body.items) :
          body.items[i] \in {"", NotJSON}
              \cup (IF allowUnknownFields THEN {} ELSE {EnvUnknown})
    \/ called.op \in {"Call", "CallFor", "CallRaw"} /\ body.array
    \/ called.op \in {"CallBatch", "CallBatchRaw"} /\ ~body.array /\ body.items[1] # "null"

\* the body is null, or an array of nothing
MissingBody ==
    LET body == called.reply.body IN
    \/ ~body.array /\ body.items[1] = "null"
    \/ called.op \in {"CallBatch", "CallBatchRaw"} /\ body.array /\ body.items = <<>>

NoResponse == called.response = <<>> /\ called.responses.isNil

Parts(err) == { err.msg[i] : i \in 1 .. Len(err.msg) }

\* C16 as the specification states it: with a status of 400 or more and a
\* body that cannot be decoded, Call and CallBatch return no response and a
\* *HTTPError carrying the status code and the raw body; with a status
\* below 400 the error is not a *HTTPError.
C16_HTTPErrorCarriesBody ==
    (called.op \in {"Call", "CallBatch"} /\ Answered /\ UndecodableBody) =>
        /\ NoResponse
        /\ Status >= 400 =>
              /\ called.err.kind = "*HTTPError"
              /\ called.err.Code = Status
              /\ BodyText(called.reply.body) \in Parts(called.err)
        /\ Status < 400 => called.err.kind = "error"

\* C16: with a status of 400 or more and a body that cannot be decoded, Call
\* and CallBatch return no response and a *HTTPError carrying the status
\* code and a message that names the status and the decoding failure, the
\* raw body not being part of the error; with a status below 400 the error
\* is a plain error, not a *HTTPError.
C16_HTTPErrorCarriesStatus ==
    (called.op \in {"Call", "CallBatch"} /\ Answered /\ UndecodableBody) =>
        /\ NoResponse
        /\ ToString(Status) \in Parts(called.err)
        /\ ". could not decode body to rpc response: " \in Parts(called.err)
        /\ Status >= 400 =>
              /\ called.err.kind = "*HTTPError"
              /\ called.err.Code = Status
        /\ Status < 400 => called.err.kind = "error"

C16_Witness ==
    /\ called.op = "Call"
    /\ Status = 400
    /\ called.reply.body = Body(FALSE, <<NotJSON>>)
    /\ NoResponse
    /\ called.err =
          HTTPError(400, <<"rpc call ", "something", "() on ", endpoint, " status code: ",
                           "400", ". could not decode body to rpc response: ",
                           "unexpected EOF">>)

HasResponse ==
    IF called.op = "CallBatch" THEN ~called.responses.isNil ELSE called.response # <<>>

\* C17: when Call or CallBatch fails for a transport failure or for a body
\* that could not be decoded (not JSON, a field that is not allowed, empty
\* or null), no response is returned; a response comes with an error only
\* when the body was decoded and the status is 400 or more; and without an
\* error there is a response.
C17_NoPartialResponse ==
    (called.op \in {"Call", "CallBatch"} /\ ~called.panicked) =>
        /\ (called.reply.failed \/ UndecodableBody \/ MissingBody) =>
              /\ ~HasResponse
              /\ called.err # NoError
        /\ (HasResponse /\ called.err # NoError) =>
              /\ ~called.reply.failed
              /\ ~UndecodableBody
              /\ ~MissingBody
              /\ Status >= 400
        /\ called.err = NoError => HasResponse

C17_Witness ==
    /\ called.op = "Call"
    /\ Status = 200
    /\ called.reply.body = Body(FALSE, <<"null">>)
    /\ ~HasResponse
    /\ called.err.kind = "error"
    /\ ". rpc response missing" \in Parts(called.err)

\* C18: with a status below 400 and a body that is an envelope with a
\* protocol error, Call returns the response with Error set and a nil
\* error; the error Call returns is never the protocol error.
C18_ProtocolErrorIsNotAnError ==
    /\ (called.op = "Call" /\ Answered /\ Status < 400 /\ ProtocolErrorBody) =>
          /\ called.response # <<>>
          /\ called.response[1].Error = <<RPCError(123, "something wrong")>>
          /\ called.err = NoError
    /\ called.op = "Call" =>
          /\ called.err.kind # "*RPCError"
          /\ called.err.rpc = <<>>

C18_Witness ==
    /\ called.op = "Call"
    /\ Status = 200
    /\ ProtocolErrorBody
    /\ called.response[1].Error[1].Code = 123
    /\ called.err = NoError

\* C19: whenever the response decoded for a CallFor carries a protocol
\* error, CallFor returns that *RPCError itself and leaves out as it was.
C19_CallForReturnsProtocolError ==
    (/\ called.op = "CallFor"
     /\ called.response # <<>>
     /\ called.response[1].Error # <<>>) =>
        /\ called.err.kind = "*RPCError"
        /\ called.err.rpc = called.response[1].Error
        /\ called.result = called.list[1]

\* an envelope whose result and error are absent or null
NullEnvelopes == {EnvResultNull, EnvErrorNull, EnvBothNull}

\* C20: with a status below 400, Call given one of the bodies
\* {"result":null}, {"error":null} and {"result":null,"error":null}, and
\* CallBatch given the array of one of them, return a nil error and a
\* response whose Result and Error are nil.
C20_NullEnvelopeAccepted ==
    /\ (/\ called.op = "Call"
        /\ Answered
        /\ Status < 400
        /\ \E text \in NullEnvelopes : called.reply.body = Body(FALSE, <<text>>)) =>
          /\ called.err = NoError
          /\ called.response # <<>>
          /\ called.response[1].Result = NoResult
          /\ called.response[1].Error = <<>>
    /\ (/\ called.op = "CallBatch"
        /\ Answered
        /\ Status < 400
        /\ \E text \in NullEnvelopes : called.reply.body = Body(TRUE, <<text>>)) =>
          /\ called.err = NoError
          /\ ~called.responses.isNil
          /\ Len(called.responses.elems) = 1
          /\ called.responses.elems[1] # <<>>
          /\ called.responses.elems[1][1].Result = NoResult
          /\ called.responses.elems[1][1].Error = <<>>

C20_Witness ==
    /\ called.op = "CallBatch"
    /\ Status = 200
    /\ called.reply.body = Body(TRUE, <<EnvBothNull>>)
    /\ called.err = NoError
    /\ called.responses = ResponseList(FALSE, <<<<RPCResponse("", NoResult, <<>>, 0)>>>>)

\* the body is an envelope, or the array of an envelope for a batch call,
\* with a field that RPCResponse does not have
UnknownFieldBody ==
    called.reply.body =
        Body(called.op \in {"CallBatch", "CallBatchRaw"}, <<EnvUnknown>>)

\* C21: a response envelope with a field outside jsonrpc, result, error
\* and id makes Call and CallBatch return no response and an error when
\* allowUnknownFields is false, at every status; when it is true the body
\* is decoded, the field ignored, and with a status below 400 the call
\* returns the response without an error.
C21_UnknownFieldsRejectedByDefault ==
    (called.op \in {"Call", "CallBatch"} /\ Answered /\ UnknownFieldBody) =>
        /\ ~allowUnknownFields =>
              /\ NoResponse
              /\ called.err # NoError
              /\ "json: unknown field \"anotherField\"" \in Parts(called.err)
        /\ allowUnknownFields =>
              /\ HasResponse
              /\ called.op = "Call" =>
                    called.response = <<RPCResponse("", NoResult, <<>>, 0)>>
              /\ called.op = "CallBatch" =>
                    called.responses.elems = <<<<RPCResponse("", NoResult, <<>>, 0)>>>>
              /\ Status < 400 => called.err = NoError

C21_Witness ==
    /\ called.op = "Call"
    /\ ~allowUnknownFields
    /\ Status = 200
    /\ UnknownFieldBody
    /\ NoResponse
    /\ called.err.kind = "error"

\* C22: with a status below 400 an empty body makes Call return no response
\* and an error, and the body {"result": null} makes it return a response
\* with a nil Result and no error.
C22_EmptyBodyIsNotNullResult ==
    (called.op = "Call" /\ Answered /\ Status < 400) =>
        /\ called.reply.body = Body(FALSE, <<"">>) =>
              /\ called.response = <<>>
              /\ called.err # NoError
        /\ called.reply.body = Body(FALSE, <<EnvResultNull>>) =>
              /\ called.response # <<>>
              /\ called.response[1].Result = NoResult
              /\ called.err = NoError

C22_Witness ==
    /\ called.op = "Call"
    /\ Status = 200
    /\ called.reply.body = Body(FALSE, <<"">>)
    /\ called.response = <<>>
    /\ called.err.kind = "error"
    /\ "EOF" \in Parts(called.err)

(***************************************************************************)
(* Claims about the accessors of a response.                               *)
(***************************************************************************)
IntRead == accessed.int # Unread(0)

FloatRead == accessed.float # Unread(Float(0, ""))

IsNumber == accessed.Result.member.kind = "number"

IntegerLiteral == IsNumber /\ accessed.Result.member.fraction = ""

FractionalLiteral == IsNumber /\ accessed.Result.member.fraction # ""

\* what the accessors return for a result that is no number, and GetInt for
\* a number with a fraction
C23_OtherResults ==
    /\ (FractionalLiteral /\ IntRead) =>
          /\ accessed.int.value = 0
          /\ accessed.int.err # ""
    /\ (FractionalLiteral /\ FloatRead) =>
          accessed.float = Got(Float(accessed.Result.member.whole,
                                     accessed.Result.member.fraction), "")
    /\ (~IsNumber /\ IntRead) =>
          /\ accessed.int.value = 0
          /\ accessed.int.err # ""
    /\ (~IsNumber /\ FloatRead) =>
          /\ accessed.float.value = Float(0, "")
          /\ accessed.float.err # ""

StepOf(t) ==
    IF pc[t] # pc'[t]
    THEN (IF pc'[t] = "idle" THEN frame[t].op ELSE frame'[t].op)
    ELSE IF returned[t] # returned'[t] THEN returned'[t].op ELSE "none"

\* what Call and Notification serialised
C24_Serialised ==
    \A t \in Threads :
        /\ returned[t].op \in {"Notification", "NewRPCNotificationObject"}
              /\ returned[t].body # NotMarshalled
           => /\ ~returned[t].body.hasID
              /\ returned[t].body.text = "{\"jsonrpc\":\"2.0\",\"method\":\"m\"}"
        /\ returned[t].op = "Call" /\ returned[t].body # NotMarshalled
           => /\ returned[t].body.hasID
              /\ returned[t].body.text
                    = "{\"jsonrpc\":\"2.0\",\"method\":\"m\",\"id\":"
                          \o ToString(returned[t].id) \o "}"

\* C24: no step of Notification or NewRPCNotificationObject changes nextID,
\* and the notification they serialise has no id member; the k-th Call gets
\* the id k - 1 whatever notifications were made before it, and the request
\* of a Call has an id member, 0 included.
C24_NotificationTakesNoID ==
    /\ [](C24_Serialised /\ \A n \in 1..Len(log) : log[n].op = "Call" /\ log[n].id = n - 1)
    /\ [][\A t \in Threads :
              StepOf(t) \in {"Notification", "NewRPCNotificationObject"}
                 => nextID' = nextID /\ log' = log]_vars

\* a thread whose notification was sent is in a Call with id 0, after the
\* other thread built a notification object
C24_Witness ==
    \E t, u \in Threads :
        /\ returned[t].op = "Notification" /\ returned[t].err = ""
        /\ returned[u].op = "NewRPCNotificationObject"
        /\ frame[t].op = "Call" /\ pc[t] = "do" /\ frame[t].id = 0

\* the number of allocations among the log entries i .. j
AllocsIn(i, j) == Cardinality({m \in i .. j : IsAlloc(log[m])})

\* the step appends a SetNextID entry to log
IsSetNextID == Len(log') > Len(log) /\ log'[Len(log')].op = "SetNextID"

\* Autoincrement is on when allocation j locks idMutex and is not turned off,
\* and nextID is not set, up to log entry k
AdvancingIn(j, k) ==
    /\ log[j].flag
    /\ \A m \in j .. k : /\ log[m].op # "SetNextID"
                         /\ ~(log[m].op = "SetAutoIncrementID" /\ ~log[m].flag)

\* C25 as stated: while autoincrement is enabled, no step of any client
\* operation decreases nextID, and an id allocated is greater than every id
\* allocated before it.
C25_CounterOnlyAdvances ==
    /\ [](\A j \in 1 .. Len(log) : \A k \in (j + 1) .. Len(log) :
             (IsAlloc(log[j]) /\ IsAlloc(log[k]) /\ log[j].flag /\ log[k].flag)
                => log[k].id > log[j].id)
    /\ [][(autoIncrementID /\ autoIncrementID') => nextID' >= nextID]_vars

\* C25: while autoincrement stays enabled, no step other than SetNextID's write
\* and the increment of the largest uint decreases nextID; and of two
\* allocations with no SetNextID and no SetAutoIncrementID(false) from the first
\* to the second, the second gets the id of the first plus the number of
\* allocations from the first on, which is greater, short of the wrap-around
\* of uint.
C25_CounterAdvancesAbsentSetNextID ==
    /\ [](\A j \in 1 .. Len(log) : \A k \in (j + 1) .. Len(log) :
             (/\ IsAlloc(log[j])
              /\ IsAlloc(log[k])
              /\ AdvancingIn(j, k)
              /\ log[j].id + AllocsIn(j, k - 1) < UintMod)
                => /\ log[k].id = log[j].id + AllocsIn(j, k - 1)
                   /\ log[k].id > log[j].id)
    /\ [][(autoIncrementID /\ autoIncrementID' /\ ~IsSetNextID /\ nextID # UintMod - 1)
             => nextID' >= nextID]_vars

\* three allocations, with SetAutoIncrementID(true) or others in between, got
\* increasing ids and the last of them has incremented nextID
C25_Witness ==
    \E j \in 1 .. Len(log) : \E k \in (j + 1) .. Len(log) :
        /\ IsAlloc(log[j])
        /\ IsAlloc(log[k])
        /\ AdvancingIn(j, k)
        /\ log[k].id = log[j].id + 2
        /\ nextID = log[k].id + 1

\* the Calls that returned an error
FailedCalls == {t \in Threads : returned[t].op = "Call" /\ returned[t].err # ""}

\* C26: with autoincrement on and no SetNextID, a Call that returned an error
\* (json.Marshal of the request failed, the transport failed, which is also how
\* a cancelled or timed-out request ends, or the response was undecodable)
\* has consumed its id: the allocation after it gets its id plus one, nextID is
\* its id plus one when no allocation followed, and no other allocation, before
\* or after, has its id.
C26_FailedCallConsumesID ==
    \A t \in FailedCalls :
        LET n == returned[t].n
            id == returned[t].id
        IN  /\ n \in 1 .. Len(log)
            /\ log[n].id = id
            /\ autoIncrementID
            /\ n = Len(log) => nextID = id + 1
            /\ n < Len(log) => log[n + 1].id = id + 1
            /\ nextID > id
            /\ \A m \in 1 .. Len(log) : m # n => log[m].id # id

\* a Call whose request could not be serialised took id 0, the next Call was
\* sent with id 1, and a third took id 2 and got an undecodable response
C26_Witness ==
    \E t \in FailedCalls : \E u \in Threads \ {t} :
        /\ returned[t].n = 1
        /\ returned[t].id = 0
        /\ returned[t].body = NotMarshalled
        /\ returned[u].op = "Call"
        /\ returned[u].n = 3
        /\ returned[u].id = 2
        /\ returned[u].err = "EOF"
        /\ \E w \in wire : ~w.notification /\ w.id = 1

\* autoincrement has been on, and nextID has not been set, since construction
AlwaysAdvancing ==
    \A m \in 1 .. Len(log) :
        /\ log[m].op # "SetNextID"
        /\ ~(log[m].op = "SetAutoIncrementID" /\ ~log[m].flag)

\* the goroutines inside UpdateRequestID, past the write of rpcRequest.ID
Updating == {t \in Threads : pc[t] \in {"ur_check", "ur_incr"}}

\* the step is UpdateRequestID(nil)
IsUpdateOfNil == opsLeft' = opsLeft - 1 /\ pc' = pc

\* C27: UpdateRequestID(req) writes the current nextID into req.ID, as a
\* fresh allocation does, and then increments nextID if and only if the
\* autoIncrementID flag it tests is set; with autoincrement on and no SetNextID
\* the request objects hold pairwise distinct ids; every update made after
\* SetAutoIncrementID(false) gives the one id nextID is frozen at, and leaves
\* nextID there; and UpdateRequestID(nil) changes neither nextID nor any
\* request.
C27_UpdateRequestID ==
    /\ [](\A t \in Updating :
             /\ objs[frame[t].req] = frame[t].id
             /\ log[frame[t].n].op = "UpdateRequestID"
             /\ log[frame[t].n].id = frame[t].id
             /\ nextID = frame[t].id)
    /\ [](AlwaysAdvancing /\ Len(log) <= UintMod
             => \A r1 \in 1 .. Len(objs) : \A r2 \in 1 .. Len(objs) :
                   r1 # r2 => objs[r1] # objs[r2])
    /\ [](\A i \in 1 .. Len(log) : \A k \in (i + 1) .. Len(log) :
             (/\ log[i].op = "SetAutoIncrementID" /\ ~log[i].flag
              /\ log[k].op = "UpdateRequestID"
              /\ NoResetIn(i + 1, Len(log)))
                => /\ log[k].id = FrozenID(log[i])
                   /\ ~PendingIncr => nextID = log[k].id)
    /\ [][\A t \in Threads :
             /\ (pc[t] = "ur_lock" /\ pc'[t] = "ur_check")
                   => /\ objs' = [objs EXCEPT ![frame[t].req] = nextID]
                      /\ nextID' = nextID
             /\ (pc[t] = "ur_check" /\ pc'[t] = "ur_incr")
                   => /\ frame'[t].inc = autoIncrementID
                      /\ nextID' = nextID /\ objs' = objs
             /\ (pc[t] = "ur_incr" /\ pc'[t] = "idle")
                   => /\ nextID' = IF frame[t].inc THEN (nextID + 1) % UintMod ELSE nextID
                      /\ objs' = objs]_vars
    /\ [][IsUpdateOfNil => nextID' = nextID /\ objs' = objs /\ log' = log]_vars

\* of two request objects the first was updated and holds the third id, and
\* nextID has advanced past it
C27_Witness ==
    /\ AlwaysAdvancing
    /\ objs = <<2, 1>>
    /\ Len(log) = 3
    /\ log[3].op = "UpdateRequestID"
    /\ nextID = 3

\* the Notifications that returned
Notified == {t \in Threads : returned[t].op = "Notification"}

\* C28: Notification returns nil whenever the request was built and
\* httpClient.Do returned a response, whatever its status code and body, which
\* it does not read; it returns an error only when json.Marshal of the
\* request or the transport failed.
C28_NotificationIgnoresResponse ==
    \A t \in Notified :
        /\ (returned[t].body # NotMarshalled /\ ~returned[t].reply.failed)
              => returned[t].err = ""
        /\ returned[t].err # ""
              => returned[t].body = NotMarshalled \/ returned[t].reply.failed

\* a Notification answered with status 500 and a body that is not JSON
\* returned nil, and one whose transport failed returned an error
C28_Witness ==
    \E t \in Notified : \E u \in Notified :
        /\ returned[t].reply.StatusCode = 500
        /\ returned[t].reply.body.items[1] = NotJSON
        /\ returned[t].err = ""
        /\ returned[u].reply.failed
        /\ returned[u].err # ""

BuiltOnce == Built("NewRequest", RPCRequest(method, Params(args), 0, jsonrpcVersion))

\* C30: for every list of one or more arguments, Params applied to what
\* Params returned for the list gives that same value, and NewRequest(m,
\* Params(a1, ..., an)) is serialised as NewRequest(m, a1, ..., an) is, with no
\* second array around the params; for a call without arguments Params()
\* is nil and params is omitted, while Params(Params()) is the list of one nil,
\* serialised as [null].
C30_ParamsIdempotent ==
    sent.by = "NewRequest(Params)"
       => IF args # NilSlice /\ len(args) >= 1
          THEN /\ sent.req.Params = Params(args)
               /\ sent.req = BuiltOnce.req
               /\ sent.body = BuiltOnce.body
          ELSE /\ Params(args) = GoNil
               /\ ~BuiltOnce.body.hasParams
               /\ sent.req.Params = SliceOf(<<GoNil>>)
               /\ sent.body.hasParams
               /\ sent.body.params = JSON("array", "[null]")

\* NewRequest on Params(123): the params are [123], one array and not two
C30_Witness ==
    /\ sent.by = "NewRequest(Params)"
    /\ args = SliceOf(<<GoValue("int", 0, 0, "123", <<>>)>>)
    /\ sent.body.params = JSON("array", "[123]")

=============================================================================
